---------------------------- MODULE Spec2Model ----------------------------
(***************************************************************************)
(* A model of gix (elmanci2/gix): the profile resolver, the command        *)
(* interceptor, the credential injector and the post-clone binder of       *)
(* src/git.rs, over the two configuration files of src/config.rs and the   *)
(* profile records of src/profile.rs.                                      *)
(*                                                                         *)
(* Text is modelled as a sequence of one-character strings, so that the    *)
(* program's prefix, suffix, split, trim and format operations are         *)
(* computed character by character as the code computes them.              *)
(***************************************************************************)
EXTENDS Integers, Sequences, FiniteSets, TLC

(***************************************************************************)
(* Bounds of the model.                                                    *)
(***************************************************************************)
\* the number of gix invocations in one behaviour
MaxRuns == 2

(***************************************************************************)
(* Text literals of the program.                                           *)
(***************************************************************************)
S_push == <<"p", "u", "s", "h">>
S_pull == <<"p", "u", "l", "l">>
S_fetch == <<"f", "e", "t", "c", "h">>
S_clone == <<"c", "l", "o", "n", "e">>
S_dash_c == <<"-", "c">>
S_user_name_eq == <<"u", "s", "e", "r", ".", "n", "a", "m", "e", "=">>
S_user_email_eq == <<"u", "s", "e", "r", ".", "e", "m", "a", "i", "l", "=">>
S_ssh_i == <<"s", "s", "h", " ", "-", "i", " ">>
S_identities_only == <<" ", "-", "o", " ", "I", "d", "e", "n", "t", "i", "t", "i", "e", "s", "O", "n", "l", "y", "=", "y", "e", "s">>
S_rev_parse == <<"r", "e", "v", "-", "p", "a", "r", "s", "e">>
S_is_inside == <<"-", "-", "i", "s", "-", "i", "n", "s", "i", "d", "e", "-", "w", "o", "r", "k", "-", "t", "r", "e", "e">>
S_config == <<"c", "o", "n", "f", "i", "g">>
S_local == <<"-", "-", "l", "o", "c", "a", "l">>
S_user_name == <<"u", "s", "e", "r", ".", "n", "a", "m", "e">>
S_user_email == <<"u", "s", "e", "r", ".", "e", "m", "a", "i", "l">>
S_core_ssh == <<"c", "o", "r", "e", ".", "s", "s", "h", "C", "o", "m", "m", "a", "n", "d">>
S_remote == <<"r", "e", "m", "o", "t", "e">>
S_get_url == <<"g", "e", "t", "-", "u", "r", "l">>
S_origin == <<"o", "r", "i", "g", "i", "n">>
S_credential == <<"c", "r", "e", "d", "e", "n", "t", "i", "a", "l">>
S_approve == <<"a", "p", "p", "r", "o", "v", "e">>
S_https_prefix == <<"h", "t", "t", "p", "s", ":", "/", "/">>
S_http == <<"h", "t", "t", "p">>
S_git_at == <<"g", "i", "t", "@">>
S_dot_git == <<".", "g", "i", "t">>
S_password_eq == <<"p", "a", "s", "s", "w", "o", "r", "d", "=">>

\* Option::None of an Option<String>: a value no text equals
None == <<"None">>

(***************************************************************************)
(* Text operations of the Rust standard library, as the code uses them.    *)
(***************************************************************************)
\* str::starts_with
starts_with(s, p) ==
    /\ Len(p) <= Len(s)
    /\ SubSeq(s, 1, Len(p)) = p

\* str::ends_with
ends_with(s, p) ==
    /\ Len(p) <= Len(s)
    /\ SubSeq(s, Len(s) - Len(p) + 1, Len(s)) = p

\* char::is_whitespace, for the characters the model's texts hold
is_whitespace(c) == c \in {" ", "\n", "\t", "\r"}

\* str::trim: both ends are stripped of white space
trim(s) ==
    LET keep == {i \in 1..Len(s) : ~is_whitespace(s[i])}
    IN  IF keep = {} THEN <<>>
        ELSE LET lo == CHOOSE i \in keep : \A j \in keep : i <= j
                 hi == CHOOSE i \in keep : \A j \in keep : j <= i
             IN  SubSeq(s, lo, hi)

\* str::strip_prefix: the rest of s after p, when s starts with p
strip_prefix(s, p) == IF starts_with(s, p) THEN SubSeq(s, Len(p) + 1, Len(s)) ELSE None

\* s.split('/').next(): the text before the first separator
split_first(s, c) ==
    LET hits == {i \in 1..Len(s) : s[i] = c}
    IN  IF hits = {} THEN s
        ELSE SubSeq(s, 1, (CHOOSE i \in hits : \A j \in hits : i <= j) - 1)

\* s.split('/').last(): the text after the last separator
split_last(s, c) ==
    LET hits == {i \in 1..Len(s) : s[i] = c}
    IN  IF hits = {} THEN s
        ELSE SubSeq(s, (CHOOSE i \in hits : \A j \in hits : j <= i) + 1, Len(s))

\* str::trim_end_matches: the suffix is stripped as often as it occurs
RECURSIVE trim_end_matches(_, _)
trim_end_matches(s, p) ==
    IF p # <<>> /\ ends_with(s, p)
    THEN trim_end_matches(SubSeq(s, 1, Len(s) - Len(p)), p)
    ELSE s

\* [String]::join(" ")
RECURSIVE join(_, _)
join(ss, sep) ==
    IF ss = <<>> THEN <<>>
    ELSE IF Len(ss) = 1 THEN ss[1]
    ELSE ss[1] \o sep \o join(Tail(ss), sep)

\* Vec<String>::contains
vec_contains(v, x) == \E i \in 1..Len(v) : v[i] = x

\* Iterator::find: the element of v at the least index in hits, or none
find(v, hits, none) ==
    IF hits = {} THEN none
    ELSE v[CHOOSE i \in hits : \A j \in hits : i <= j]

(***************************************************************************)
(* Profiles (src/profile.rs) and the texts the model draws them from.      *)
(***************************************************************************)
\* AuthMethod::SSH { key_path } and AuthMethod::Token { token }
SSH(key_path) == [kind |-> "SSH", val |-> key_path]
Token(token) == [kind |-> "Token", val |-> token]

\* struct Profile
Profile(profile_name, name, email, auth) ==
    [profile_name |-> profile_name, name |-> name, email |-> email, auth |-> auth]

\* Option<&Profile>::None
NoProfile == Profile(None, None, None, [kind |-> "None", val |-> None])

\* two profiles whose emails differ in case only, one per authentication method
ProfW == Profile(<<"w">>, <<"W", "u">>, <<"e", "@", "x", ".", "c">>, SSH(<<"/", "k">>))
ProfP == Profile(<<"p">>, <<"P", "i">>, <<"E", "@", "x", ".", "c">>, Token(<<"t", "k">>))

\* a profile name no profile has
S_z == <<"z">>

\* the values of default_profile a global config file holds in the model
DefaultNames == {None, ProfW.profile_name, S_z}

(***************************************************************************)
(* The configuration files (src/config.rs).                                *)
(***************************************************************************)
\* fn default_intercepted_commands
default_intercepted_commands == <<S_pull, S_push, S_fetch, S_clone>>

\* struct Config, the value load_config returns: ok is FALSE for Err
Config(profiles, intercepted_commands, default_profile) ==
    [ok |-> TRUE, profiles |-> profiles,
     intercepted_commands |-> intercepted_commands,
     default_profile |-> default_profile]

\* the Err of load_config (serde_json could not parse the file)
ConfigErr == [ok |-> FALSE, profiles |-> <<>>, intercepted_commands |-> <<>>,
              default_profile |-> None]

\* The content of ~/.gix/config.json: the file is missing, is not parsable
\* (corrupt), is empty or the beginning of a document a save has not finished
\* (partial), or is a JSON document (doc) holding profiles, default_profile
\* and, when has_ic, the field intercepted_commands.
GlobalMissing == [kind |-> "missing", profiles |-> <<>>, has_ic |-> FALSE,
                  intercepted_commands |-> <<>>, default_profile |-> None]
GlobalCorrupt == [kind |-> "corrupt", profiles |-> <<>>, has_ic |-> FALSE,
                  intercepted_commands |-> <<>>, default_profile |-> None]
GlobalPartial == [kind |-> "partial", profiles |-> <<>>, has_ic |-> FALSE,
                  intercepted_commands |-> <<>>, default_profile |-> None]
GlobalDoc(profiles, has_ic, ic, default_profile) ==
    [kind |-> "doc", profiles |-> profiles, has_ic |-> has_ic,
     intercepted_commands |-> ic, default_profile |-> default_profile]

\* a bug: a persisted empty intercepted_commands stays empty
load_config_keep_empty(file) ==
    IF file.kind = "missing"
    THEN Config(<<>>, default_intercepted_commands, None)
    ELSE IF file.kind \in {"corrupt", "partial"} THEN ConfigErr
    ELSE Config(file.profiles,
                IF file.has_ic THEN file.intercepted_commands
                ELSE default_intercepted_commands,
                file.default_profile)

\* a bug: an unparsable file is taken for a missing one
load_config_reset(file) ==
    IF file.kind \in {"missing", "corrupt", "partial"}
    THEN Config(<<>>, default_intercepted_commands, None)
    ELSE Config(file.profiles,
                IF ~file.has_ic \/ file.intercepted_commands = <<>>
                THEN default_intercepted_commands ELSE file.intercepted_commands,
                file.default_profile)

\* fn load_config: a missing file gives the defaults, an unparsable one an
\* error; a missing field intercepted_commands (serde default) and an empty
\* list both give the default commands
load_config(file) ==
    IF file.kind = "missing"
    THEN Config(<<>>, default_intercepted_commands, None)
    ELSE IF file.kind \in {"corrupt", "partial"} THEN ConfigErr
    ELSE LET ic == IF file.has_ic THEN file.intercepted_commands
                   ELSE default_intercepted_commands
         IN  Config(file.profiles,
                    IF ic = <<>> THEN default_intercepted_commands ELSE ic,
                    file.default_profile)

\* The content of a <dir>/.gix/config.json: missing, not parsable, empty or
\* the beginning of a document (partial), or a document holding
\* selected_profile (None for null)
LocalMissing == [kind |-> "missing", selected_profile |-> None]
LocalCorrupt == [kind |-> "corrupt", selected_profile |-> None]
LocalPartial == [kind |-> "partial", selected_profile |-> None]
LocalDoc(selected_profile) == [kind |-> "doc", selected_profile |-> selected_profile]

\* Option<LocalConfig>: fn load_local_config yields none (FALSE) for a missing
\* or unparsable file
load_local_config(file) ==
    IF file.kind = "doc"
    THEN [some |-> TRUE, selected_profile |-> file.selected_profile]
    ELSE [some |-> FALSE, selected_profile |-> None]

(***************************************************************************)
(* Directories.  The invoking directory is one of three places: the root   *)
(* of a repository, a subdirectory of that repository, and a directory     *)
(* outside every repository.  A relative path names a child of the         *)
(* invoking directory.                                                     *)
(***************************************************************************)
Places == {"root", "sub", "out"}

\* the directory a place is, and the child of a place a relative path names
Here(place) == [base |-> place, rel |-> <<>>]
Child(place, rel) == [base |-> place, rel |-> rel]

\* the relative directory names of the model
S_r == <<"r">>
S_d == <<"d">>
ChildNames == {S_r, S_d}

AllDirs == {Here(b) : b \in Places} \cup {Child(b, n) : b \in Places, n \in ChildNames}

\* no repository
NoRepo == [base |-> "none", rel |-> <<>>]

(***************************************************************************)
(* The state.                                                              *)
(***************************************************************************)
VARIABLES
    global_file,   \* the content of ~/.gix/config.json
    local_file,    \* the content of <dir>/.gix/config.json, for every directory
    git_config,    \* the local settings of the repository rooted at a directory
    dirs,          \* the child directories that exist
    clones,        \* the child directories that are working trees of their own
    last_bound,    \* the profile name last bound to the repository rooted at a directory
    usage_log,     \* the lines the running invocation appended to ~/.gix/usage.log
    runs,          \* the invocations started so far
    pc,            \* the position of the running invocation
    cmd,           \* the handler main dispatched to
    args,          \* its git_args
    cwd,           \* the place it was invoked in
    config,        \* the Config it loaded
    profile,       \* the profile it resolved or selected
    rule,          \* the rule of detect_profile that resolved it (0: none)
    selected,      \* the profile came from select_profile
    bound,         \* apply_local_config ran before delegation
    trace,         \* the subprocesses, prompts and file writes so far, in order
    tool_status,   \* the exit status of the delegated or passed-through tool
    exit_code,     \* the exit code of the process (NotExited while it runs)
    editors        \* two more invocations that edit the global config at the same time

world == <<global_file, local_file, git_config, dirs, clones, last_bound>>
vars == <<global_file, local_file, git_config, dirs, clones, last_bound, usage_log,
          runs, pc, cmd, args, cwd, config, profile, rule, selected, bound, trace,
          tool_status, exit_code,
         editors>>

\* the process has not exited
NotExited == -1

\* main returns Err: the Rust runtime reports it and exits with status 1;
\* the same value stands in for a tool status without a code (unwrap_or(1))
EXIT_FAILURE == 1

\* ExitStatus of the tool: it exited with a code, it was killed by a signal
\* (code() is None), or it could not be spawned (io::Error)
Exited(code) == [kind |-> "exit", code |-> code]
Signalled == [kind |-> "signal", code |-> NotExited]
SpawnErr == [kind |-> "spawn_err", code |-> NotExited]
NoStatus == [kind |-> "none", code |-> NotExited]
ToolStatuses == {Exited(c) : c \in {0, 1, 128}} \cup {Signalled, SpawnErr}

\* a bug: every exit of the tool counts as a success
success_any_exit(st) == st.kind = "exit"

\* ExitStatus::success
success(st) == st.kind = "exit" /\ st.code = 0

\* a bug: every failure of the tool exits with the generic failure code
code_always_1(st) == EXIT_FAILURE

\* status.code().unwrap_or(1)
code_unwrap_or_1(st) == IF st.kind = "exit" THEN st.code ELSE EXIT_FAILURE

(***************************************************************************)
(* What an invocation does that the outside can see.                       *)
(***************************************************************************)
\* a subprocess of the version-control tool: Command::new("git") with argv,
\* the GIT_SSH_COMMAND of its environment (None: inherited), what is written
\* to its standard input (None: nothing) and its working directory
Spawn(argv, env, stdin, dir) ==
    [ev |-> "spawn", argv |-> argv, env |-> env, stdin |-> stdin, dir |-> dir,
     reply |-> "none"]

\* an interactive prompt, "select" (select_profile) or "confirm" (the bind
\* prompt), and the reply: "chosen" or "err" (interact failed) to the first,
\* "yes", "no" or "err" to the second
Prompt(kind, reply) ==
    [ev |-> kind, argv |-> <<>>, env |-> None, stdin |-> None, dir |-> NoRepo,
     reply |-> reply]

\* a write of <dir>/.gix/config.json
LocalWrite(dir) ==
    [ev |-> "write_local", argv |-> <<>>, env |-> None, stdin |-> None, dir |-> dir,
     reply |-> "none"]

\* an append to ~/.gix/usage.log
LogAppend ==
    [ev |-> "log", argv |-> <<>>, env |-> None, stdin |-> None, dir |-> NoRepo,
     reply |-> "none"]

\* the line log_usage writes, without its timestamp
LogLine(profile_name, command, dir) ==
    [profile |-> profile_name, command |-> command, dir |-> dir]

(***************************************************************************)
(* The version-control tool, as the program queries and drives it.         *)
(***************************************************************************)
\* the repository a directory is inside: a clone is its own repository, the
\* places root and sub (and their other children) are in the repository at root
RepoOf(d, cl) ==
    IF d \in cl THEN d
    ELSE IF d.base \in {"root", "sub"} THEN Here("root")
    ELSE NoRepo

\* the settings of a repository that has none
NoSettings == [user_name |-> None, user_email |-> None, core_sshCommand |-> None]

\* fn is_inside_git_repo: git rev-parse --is-inside-work-tree succeeds
is_inside_git_repo(d, cl) == RepoOf(d, cl) # NoRepo

\* the subprocess is_inside_git_repo runs
RevParse(d) == Spawn(<<S_rev_parse, S_is_inside>>, None, None, d)

\* git config --local <key> in directory d: it fails outside a repository and
\* for an unset key, and prints the value and a newline otherwise
git_config_get(gc, d, cl, key) ==
    LET repo == RepoOf(d, cl)
        val == IF repo = NoRepo THEN None ELSE gc[repo][key]
    IN  IF val = None THEN [success |-> FALSE, stdout |-> <<>>]
        ELSE [success |-> TRUE, stdout |-> val \o <<"\n">>]

\* git config --local <key> <value> in directory d (value None: --unset);
\* outside a repository nothing is written
git_config_set(gc, d, cl, key, value) ==
    LET repo == RepoOf(d, cl)
    IN  IF repo = NoRepo THEN gc ELSE [gc EXCEPT ![repo][key] = value]

(***************************************************************************)
(* The Resolver and the binding of a profile to a repository (src/git.rs). *)
(***************************************************************************)
\* the result of detect_profile: the profile (NoProfile for None), the rule
\* that produced it (0 for None) and how many subprocesses it ran
Detected(p, r, q) == [profile |-> p, rule |-> r, queries |-> q]

\* a bug: a name no profile carries yields the first profile
find_by_name_or_first(profiles, name) ==
    find(profiles, {i \in 1..Len(profiles) : profiles[i].profile_name = name},
         IF profiles = <<>> THEN NoProfile ELSE profiles[1])

\* config.profiles.iter().find(|p| p.profile_name == name)
find_by_name(profiles, name) ==
    find(profiles, {i \in 1..Len(profiles) : profiles[i].profile_name = name}, NoProfile)

\* config.profiles.iter().find(|p| p.email == email)
find_by_email(profiles, email) ==
    find(profiles, {i \in 1..Len(profiles) : profiles[i].email = email}, NoProfile)

\* a bug: the global default is consulted before the local binding
detect_profile_default_first(cfg, local, inside, email_out) ==
    LET by_local == IF local.some /\ local.selected_profile # None
                    THEN find_by_name(cfg.profiles, local.selected_profile)
                    ELSE NoProfile
        by_default == IF cfg.default_profile # None
                      THEN find_by_name(cfg.profiles, cfg.default_profile)
                      ELSE NoProfile
        p == find_by_email(cfg.profiles, trim(email_out.stdout))
    IN  IF by_default # NoProfile THEN Detected(by_default, 2, 0)
        ELSE IF by_local # NoProfile THEN Detected(by_local, 1, 0)
        ELSE IF ~inside THEN Detected(NoProfile, 0, 1)
        ELSE IF ~email_out.success THEN Detected(NoProfile, 0, 2)
        ELSE Detected(p, IF p = NoProfile THEN 0 ELSE 3, 2)

\* fn detect_profile: local is load_local_config() in the invoking directory,
\* inside is is_inside_git_repo(), email_out the Output of
\* git config --local user.email
detect_profile(cfg, local, inside, email_out) ==
    LET by_local == IF local.some /\ local.selected_profile # None
                    THEN find_by_name(cfg.profiles, local.selected_profile)
                    ELSE NoProfile
        by_default == IF cfg.default_profile # None
                      THEN find_by_name(cfg.profiles, cfg.default_profile)
                      ELSE NoProfile
        email == trim(email_out.stdout)
    IN  IF by_local # NoProfile THEN Detected(by_local, 1, 0)
        ELSE IF by_default # NoProfile THEN Detected(by_default, 2, 0)
        ELSE IF ~inside THEN Detected(NoProfile, 0, 1)
        ELSE IF ~email_out.success THEN Detected(NoProfile, 0, 2)
        ELSE IF email = <<>> THEN Detected(NoProfile, 0, 2)
        ELSE LET p == find_by_email(cfg.profiles, email)
             IN  Detected(p, IF p = NoProfile THEN 0 ELSE 3, 2)

\* the subprocesses detect_profile ran, in order
detect_profile_spawns(d, queries) ==
    IF queries = 0 THEN <<>>
    ELSE IF queries = 1 THEN <<RevParse(d)>>
    ELSE <<RevParse(d), Spawn(<<S_config, S_local, S_user_email>>, None, None, d)>>

\* format!("ssh -i {} -o IdentitiesOnly=yes", key_path)
ssh_command(key_path) == S_ssh_i \o key_path \o S_identities_only

\* the value core.sshCommand is set to for a profile: the key-pinned command
\* for SSH, None (--unset) for Token
ssh_setting(p) == IF p.auth.kind = "SSH" THEN ssh_command(p.auth.val) ELSE None

\* the three git config subprocesses of apply_local_config and of
\* apply_local_config_to_dir, run in directory d
apply_spawns(p, d) ==
    <<Spawn(<<S_config, S_local, S_user_name, p.name>>, None, None, d),
      Spawn(<<S_config, S_local, S_user_email, p.email>>, None, None, d),
      IF p.auth.kind = "SSH"
      THEN Spawn(<<S_config, S_local, S_core_ssh, ssh_command(p.auth.val)>>, None, None, d)
      ELSE Spawn(<<S_config, S_local, <<"-", "-", "u", "n", "s", "e", "t">>, S_core_ssh>>,
                 None, None, d)>>

\* a bug: a Token profile leaves core.sshCommand as it was
apply_local_config_to_dir_keep_ssh(gc, p, d, cl) ==
    LET g1 == git_config_set(gc, d, cl, "user_name", p.name)
        g2 == git_config_set(g1, d, cl, "user_email", p.email)
    IN  IF p.auth.kind = "SSH"
        THEN git_config_set(g2, d, cl, "core_sshCommand", ssh_setting(p))
        ELSE g2

\* fn apply_local_config_to_dir: what the three subprocesses leave in the
\* settings of the repository directory d is inside
apply_local_config_to_dir(gc, p, d, cl) ==
    LET g1 == git_config_set(gc, d, cl, "user_name", p.name)
        g2 == git_config_set(g1, d, cl, "user_email", p.email)
    IN  git_config_set(g2, d, cl, "core_sshCommand", ssh_setting(p))

\* how a save of a config file ends: create_dir_all or File::create fails
\* (nothing is touched), File::create has truncated the file and the write
\* fails or is cut short, or the document is written
SaveOutcomes == {"ok", "create_err", "write_err"}

\* fn save_local_profile_selection_to_dir: File::create truncates
\* <dir>/.gix/config.json and to_writer_pretty writes selected_profile =
\* profile_name into it
save_local_profile_selection_to_dir(lf, profile_name, d, saved) ==
    IF saved = "create_err" THEN lf
    ELSE IF saved = "write_err" THEN [lf EXCEPT ![d] = LocalPartial]
    ELSE [lf EXCEPT ![d] = LocalDoc(profile_name)]

\* a bind (use, the confirmed bind prompt, the post-clone bind) made in
\* directory d is remembered for the repository d is inside
remember_bind(lb, profile_name, d, cl) ==
    IF RepoOf(d, cl) = NoRepo THEN lb
    ELSE [lb EXCEPT ![RepoOf(d, cl)] = profile_name]

\* fn get_local_config_path and fn save_local_profile_selection: the local
\* config file is .gix/config.json relative to the current directory
local_config_dir(place) == Here(place)

\* fn detect_cloned_dir: names are the relative paths that exist as
\* directories; the result is a relative path or None
url_shaped(arg) ==
    ends_with(arg, S_dot_git) \/ starts_with(arg, S_git_at) \/ starts_with(arg, S_http)

\* the loop of detect_cloned_dir over args[1..i], last argument first
RECURSIVE derive_from_url(_, _, _)
derive_from_url(a, i, names) ==
    IF i = 0 THEN None
    ELSE LET name == trim_end_matches(split_last(a[i], "/"), S_dot_git)
         IN  IF url_shaped(a[i]) /\ name \in names THEN name
             ELSE derive_from_url(a, i - 1, names)

detect_cloned_dir(a, names) ==
    LET last == a[Len(a)]
    IN  IF /\ a # <<>>
           /\ ~starts_with(last, <<"-">>)
           /\ ~starts_with(last, S_http)
           /\ ~starts_with(last, S_git_at)
           /\ ~ends_with(last, S_dot_git)
           /\ last \in names
        THEN last
        ELSE derive_from_url(a, Len(a), names)

(***************************************************************************)
(* Interactive selection (src/profile.rs) and the Credential Injector.     *)
(***************************************************************************)
\* the answer of a prompt whose interact() failed or was interrupted
Interrupted == -1

\* a bug: an interrupted selection is reported as no profile
select_profile_cancelled(cfg, answer) ==
    IF cfg.profiles = <<>> \/ answer = Interrupted THEN NoProfile
    ELSE cfg.profiles[answer + 1]

\* fn select_profile: None without profiles (no prompt is shown); otherwise
\* the profile at the chosen index, the first one when the prompt fails
select_profile(cfg, answer) ==
    IF cfg.profiles = <<>> THEN NoProfile
    ELSE cfg.profiles[(IF answer = Interrupted THEN 0 ELSE answer) + 1]

\* the Output of git remote get-url origin: no origin, or a URL and a newline
S_url_https == <<"h", "t", "t", "p", "s", ":", "/", "/", "h", "/", "o", "/", "r", ".", "g", "i", "t">>
NoOrigin == [success |-> FALSE, stdout |-> <<>>]
Origin(url) == [success |-> TRUE, stdout |-> url \o <<"\n">>]
OriginAnswers ==
    {NoOrigin, Origin(S_url_https),
     Origin(<<"g", "i", "t", "@", "h", ":", "o", "/", "r", ".", "g", "i", "t">>),
     Origin(<<"h", "t", "t", "p", ":", "/", "/", "h", "/", "r">>)}

\* how git credential approve went: it ran, or spawn, write! or wait failed
CredentialOutcomes == {"ok", "spawn_err", "write_err", "wait_err"}

\* the record written to the standard input of git credential approve
credential_record(host, username, token) ==
    <<"p", "r", "o", "t", "o", "c", "o", "l", "=", "h", "t", "t", "p", "s", "\n">>
        \o <<"h", "o", "s", "t", "=">> \o host \o <<"\n">>
        \o <<"u", "s", "e", "r", "n", "a", "m", "e", "=">> \o username \o <<"\n">>
        \o S_password_eq \o token \o <<"\n">>

\* a bug: the token is passed as an argument of git credential approve
inject_token_credential_in_argv(username, token, origin_out, outcome, d) ==
    LET get_url == Spawn(<<S_remote, S_get_url, S_origin>>, None, None, d)
        url == trim(origin_out.stdout)
        host == split_first(strip_prefix(url, S_https_prefix), "/")
        approve == Spawn(<<S_credential, S_approve, S_password_eq \o token>>, None,
                         credential_record(host, username, <<>>), d)
    IN  IF origin_out.success /\ starts_with(url, S_https_prefix)
        THEN [ok |-> outcome = "ok",
              spawns |-> IF outcome = "spawn_err" THEN <<get_url>>
                         ELSE <<get_url, approve>>]
        ELSE [ok |-> TRUE, spawns |-> <<get_url>>]

\* a bug: the record is submitted whatever the scheme of the origin URL
inject_token_credential_any_scheme(username, token, origin_out, outcome, d) ==
    LET get_url == Spawn(<<S_remote, S_get_url, S_origin>>, None, None, d)
        url == trim(origin_out.stdout)
        host == split_first(strip_prefix(url, S_https_prefix), "/")
        approve == Spawn(<<S_credential, S_approve>>, None,
                         credential_record(host, username, token), d)
    IN  IF origin_out.success
        THEN [ok |-> outcome = "ok",
              spawns |-> IF outcome = "spawn_err" THEN <<get_url>>
                         ELSE <<get_url, approve>>]
        ELSE [ok |-> TRUE, spawns |-> <<get_url>>]

\* fn inject_token_credential: the subprocesses it starts and whether it
\* returns Ok; origin_out is the Output of git remote get-url origin
inject_token_credential(username, token, origin_out, outcome, d) ==
    LET get_url == Spawn(<<S_remote, S_get_url, S_origin>>, None, None, d)
        url == trim(origin_out.stdout)
        host == split_first(strip_prefix(url, S_https_prefix), "/")
        approve == Spawn(<<S_credential, S_approve>>, None,
                         credential_record(host, username, token), d)
    IN  IF origin_out.success /\ starts_with(url, S_https_prefix)
        THEN [ok |-> outcome = "ok",
              spawns |-> IF outcome = "spawn_err" THEN <<get_url>>
                         ELSE <<get_url, approve>>]
        ELSE [ok |-> TRUE, spawns |-> <<get_url>>]

(***************************************************************************)
(* Initial states: any global config file of the model, a local config     *)
(* file at the repository root, and any working-tree email.                *)
(***************************************************************************)
S_commit == <<"c", "o", "m", "m", "i", "t">>

\* the global config files of the model: with no or two profiles; when
\* intercepted_commands is present it is the empty list, or commit and clone
GlobalFiles ==
    {GlobalMissing, GlobalCorrupt}
    \cup {GlobalDoc(ps, FALSE, <<>>, dp) : ps \in {<<>>, <<ProfW, ProfP>>}, dp \in DefaultNames}
    \cup {GlobalDoc(<<ProfW, ProfP>>, TRUE, ic, None) : ic \in {<<>>, <<S_commit, S_clone>>}}


\* the argument vectors gix is invoked with
ArgVectors ==
    {<<S_push>>, <<S_commit>>, <<S_clone, S_url_https>>, <<S_clone, S_url_https, S_d>>}

\* the invocations of the model: any argument vector at the repository root
\* and outside every repository, and the commands that are not clone in the
\* subdirectory
Invocations ==
    {<<a, place>> : a \in ArgVectors, place \in {"root", "out"}}
    \cup {<<a, "sub">> : a \in {<<S_push>>, <<S_commit>>}}

\* the two further editors and what each does: nothing yet
NoEditors == [e \in {1, 2} |-> [pc |-> "idle", op |-> "none", config |-> ConfigErr, order |-> 0]]

Idle ==
    /\ pc = "idle"
    /\ usage_log = <<>>
    /\ cmd = "none"
    /\ args = <<>>
    /\ cwd = "root"
    /\ config = ConfigErr
    /\ profile = NoProfile
    /\ rule = 0
    /\ selected = FALSE
    /\ bound = FALSE
    /\ trace = <<>>
    /\ tool_status = NoStatus
    /\ exit_code = NotExited

Init ==
    /\ editors = NoEditors
    /\ global_file \in GlobalFiles
    /\ \E lf \in {LocalMissing, LocalCorrupt, LocalDoc(ProfP.profile_name), LocalDoc(S_z)} :
         local_file = [d \in AllDirs |-> IF d = Here("root") THEN lf ELSE LocalMissing]
    /\ \E e \in {None, ProfP.email} :
         git_config = [d \in AllDirs |->
                         IF d = Here("root") THEN [NoSettings EXCEPT !.user_email = e]
                         ELSE NoSettings]
    /\ dirs = {}
    /\ clones = {}
    /\ last_bound = [d \in AllDirs |-> None]
    /\ runs = 0
    /\ Idle

(***************************************************************************)
(* fn handle_git_command, step by step.                                    *)
(***************************************************************************)
\* a bug: the error is swallowed, the process always ends with success
Exit_success(code) ==
    /\ pc' = "done"
    /\ exit_code' = 0

\* the process ends with an exit code
Exit(code) ==
    /\ pc' = "done"
    /\ exit_code' = code

\* a bug: clone is not told apart from the other subcommands
is_clone_never(a) == FALSE

\* args.first().map(|s| s == "clone").unwrap_or(false)
is_clone(a) == a # <<>> /\ a[1] = S_clone

\* a bug: without profiles a command that is not intercepted is intercepted
passes_through_with_profiles(cfg, a) ==
    cfg.profiles # <<>> /\ a # <<>> /\ ~vec_contains(cfg.intercepted_commands, a[1])

\* the first token is not in config.intercepted_commands
passes_through(cfg, a) == a # <<>> /\ ~vec_contains(cfg.intercepted_commands, a[1])

\* a successful clone creates a working tree under the invoking directory
\* (name None: nowhere the model sees)
CloneCreates(name) ==
    IF name = None THEN UNCHANGED <<dirs, clones>>
    ELSE /\ Child(cwd, name) \notin clones
         /\ dirs' = dirs \cup {Child(cwd, name)}
         /\ clones' = clones \cup {Child(cwd, name)}

\* what running the tool with args leaves behind
ToolEffect(a, st) ==
    IF is_clone(a) /\ success(st)
    THEN \E name \in ChildNames \cup {None} : CloneCreates(name)
    ELSE UNCHANGED <<dirs, clones>>

\* main dispatches to handle_git_command, which loads the global config and
\* takes the pass-through decision
Invoke(a, place) ==
    /\ pc = "idle"
    /\ runs < MaxRuns
    /\ runs' = runs + 1
    /\ cmd' = "git"
    /\ args' = a
    /\ cwd' = place
    /\ config' = load_config(global_file)
    /\ IF ~config'.ok THEN Exit(EXIT_FAILURE)
       ELSE /\ pc' = IF passes_through(config', a) THEN "pass" ELSE "detect"
            /\ UNCHANGED exit_code
    /\ UNCHANGED <<world, usage_log, profile, rule, selected, bound, trace, tool_status>>
    /\ UNCHANGED editors

\* pass-through: the tool runs with the original arguments
PassThrough(st) ==
    /\ pc = "pass"
    /\ tool_status' = st
    /\ trace' = IF st = SpawnErr THEN trace
                ELSE Append(trace, Spawn(args, None, None, Here(cwd)))
    /\ Exit(IF st = SpawnErr THEN EXIT_FAILURE
            ELSE IF success(st) THEN 0 ELSE code_unwrap_or_1(st))
    /\ ToolEffect(args, st)
    /\ UNCHANGED <<global_file, local_file, git_config, last_bound, usage_log,
                   runs, cmd, args, cwd, config, profile, rule, selected, bound>>
    /\ UNCHANGED editors

\* let current_profile = detect_profile(&config)
DetectProfile ==
    /\ pc = "detect"
    /\ LET here == Here(cwd)
           found == detect_profile(config,
                                   load_local_config(local_file[local_config_dir(cwd)]),
                                   is_inside_git_repo(here, clones),
                                   git_config_get(git_config, here, clones, "user_email"))
       IN  /\ profile' = found.profile
           /\ rule' = found.rule
           /\ trace' = trace \o detect_profile_spawns(here, found.queries)
           /\ pc' = IF found.profile # NoProfile THEN "log" ELSE "select"
    /\ UNCHANGED <<world, usage_log, runs, cmd, args, cwd, config, selected, bound,
                   tool_status, exit_code>>
    /\ UNCHANGED editors

\* select_profile(&config).ok_or_else(..)?, then is_inside_git_repo() && !is_clone
SelectProfile(answer) ==
    /\ pc = "select"
    /\ answer = Interrupted \/ answer < Len(config.profiles)
    /\ LET p == select_profile(config, answer)
       IN  IF p = NoProfile
           THEN /\ Exit(EXIT_FAILURE)
                /\ UNCHANGED <<profile, selected, trace>>
           ELSE /\ profile' = p
                /\ selected' = TRUE
                /\ trace' = trace \o <<Prompt("select", IF answer = Interrupted
                                                          THEN "err" ELSE "chosen"),
                                        RevParse(Here(cwd))>>
                /\ pc' = IF is_inside_git_repo(Here(cwd), clones) /\ ~is_clone(args)
                         THEN "confirm" ELSE "log"
                /\ UNCHANGED exit_code
    /\ UNCHANGED <<world, usage_log, runs, cmd, args, cwd, config, rule, bound,
                   tool_status>>
    /\ UNCHANGED editors

\* the bind prompt: interact()? fails, or the user declines, or confirms and
\* apply_local_config(p)? runs (saved: how the save of the local config file ends)
ConfirmBind(answer, saved) ==
    /\ pc = "confirm"
    /\ IF answer = "err"
       THEN /\ trace' = Append(trace, Prompt("confirm", "err"))
            /\ Exit(EXIT_FAILURE)
            /\ UNCHANGED <<local_file, git_config, last_bound, bound>>
       ELSE IF answer = "no"
       THEN /\ trace' = Append(trace, Prompt("confirm", "no"))
            /\ pc' = "log"
            /\ UNCHANGED <<local_file, git_config, last_bound, bound, exit_code>>
       ELSE IF saved # "ok"
       THEN /\ trace' = Append(trace, Prompt("confirm", "yes"))
            /\ local_file' = save_local_profile_selection_to_dir(
                                 local_file, profile.profile_name, local_config_dir(cwd), saved)
            /\ Exit(EXIT_FAILURE)
            /\ UNCHANGED <<git_config, last_bound, bound>>
       ELSE /\ trace' = trace \o <<Prompt("confirm", "yes"), LocalWrite(local_config_dir(cwd))>>
                              \o apply_spawns(profile, Here(cwd))
            /\ local_file' = save_local_profile_selection_to_dir(
                                 local_file, profile.profile_name, local_config_dir(cwd), saved)
            /\ git_config' = apply_local_config_to_dir(git_config, profile, Here(cwd), clones)
            /\ last_bound' = remember_bind(last_bound, profile.profile_name, Here(cwd), clones)
            /\ bound' = TRUE
            /\ pc' = "log"
            /\ UNCHANGED exit_code
    /\ UNCHANGED <<global_file, dirs, clones, usage_log, runs, cmd, args, cwd, config,
                   profile, rule, selected, tool_status>>
    /\ UNCHANGED editors

\* a bug: the usage log step is skipped
LogUsage_skipped(written) ==
    /\ pc = "log"
    /\ pc' = IF profile.auth.kind = "Token" THEN "credential" ELSE "delegate"
    /\ UNCHANGED <<world, usage_log, trace, exit_code, runs, cmd, args, cwd, config,
                   profile, rule, selected, bound, tool_status>>
    /\ UNCHANGED editors

\* log_usage(&profile, &args)?: the line is appended, or the file cannot be
\* opened or written and the error is returned
LogUsage(written) ==
    /\ pc = "log"
    /\ IF written
       THEN /\ usage_log' = Append(usage_log,
                                   LogLine(profile.profile_name, join(args, <<" ">>), Here(cwd)))
            /\ trace' = Append(trace, LogAppend)
            /\ pc' = IF profile.auth.kind = "Token" THEN "credential" ELSE "delegate"
            /\ UNCHANGED exit_code
       ELSE /\ Exit(EXIT_FAILURE)
            /\ UNCHANGED <<usage_log, trace>>
    /\ UNCHANGED <<world, runs, cmd, args, cwd, config, profile, rule, selected, bound,
                   tool_status>>
    /\ UNCHANGED editors

\* AuthMethod::Token: inject_token_credential(&profile.name, token)?
InjectCredential(origin_out, outcome) ==
    /\ pc = "credential"
    /\ LET r == inject_token_credential(profile.name, profile.auth.val,
                                        origin_out, outcome, Here(cwd))
       IN  /\ trace' = trace \o r.spawns
           /\ IF r.ok THEN pc' = "delegate" /\ UNCHANGED exit_code
              ELSE Exit(EXIT_FAILURE)
    /\ UNCHANGED <<world, usage_log, runs, cmd, args, cwd, config, profile, rule,
                   selected, bound, tool_status>>
    /\ UNCHANGED editors

\* a bug: the identity overrides are put after the arguments
delegated_argv_overrides_last(p, a) ==
    a \o <<S_dash_c, S_user_name_eq \o p.name, S_dash_c, S_user_email_eq \o p.email>>

\* the argument vector of the delegated invocation
delegated_argv(p, a) ==
    <<S_dash_c, S_user_name_eq \o p.name, S_dash_c, S_user_email_eq \o p.email>> \o a

\* a bug: GIT_SSH_COMMAND is set whatever the authentication method
delegated_env_always(p) == ssh_command(p.auth.val)

\* the GIT_SSH_COMMAND of the delegated invocation
delegated_env(p) == IF p.auth.kind = "SSH" THEN ssh_command(p.auth.val) ELSE None

\* git_cmd.status(): the tool runs with the identity overrides; a failure
\* exits with its code, a successful clone goes on to the post-clone step
Delegate(st) ==
    /\ pc = "delegate"
    /\ tool_status' = st
    /\ trace' = IF st = SpawnErr THEN trace
                ELSE Append(trace, Spawn(delegated_argv(profile, args),
                                         delegated_env(profile), None, Here(cwd)))
    /\ IF st = SpawnErr THEN Exit(EXIT_FAILURE)
       ELSE IF ~success(st) THEN Exit(code_unwrap_or_1(st))
       ELSE IF is_clone(args) THEN pc' = "postclone" /\ UNCHANGED exit_code
       ELSE Exit(0)
    /\ ToolEffect(args, st)
    /\ UNCHANGED <<global_file, local_file, git_config, last_bound, usage_log,
                   runs, cmd, args, cwd, config, profile, rule, selected, bound>>
    /\ UNCHANGED editors

\* the relative paths that exist as directories under a place
existing_names(place, ds) == {n \in ChildNames : Child(place, n) \in ds}

\* post-clone configuration: the directory is detected or not; the local
\* config file is saved there (or cannot be: a warning) and the settings applied
PostClone(saved) ==
    /\ pc = "postclone"
    /\ LET name == detect_cloned_dir(args, existing_names(cwd, dirs))
           dir == Child(cwd, name)
       IN  IF name = None
           THEN UNCHANGED <<local_file, git_config, last_bound, trace>>
           ELSE IF saved # "ok"
           THEN /\ local_file' = save_local_profile_selection_to_dir(
                                     local_file, profile.profile_name, dir, saved)
                /\ UNCHANGED <<git_config, last_bound, trace>>
           ELSE /\ local_file' = save_local_profile_selection_to_dir(
                                     local_file, profile.profile_name, dir, saved)
                /\ git_config' = apply_local_config_to_dir(git_config, profile, dir, clones)
                /\ last_bound' = remember_bind(last_bound, profile.profile_name, dir, clones)
                /\ trace' = trace \o <<LocalWrite(dir)>> \o apply_spawns(profile, dir)
    /\ Exit(0)
    /\ UNCHANGED <<global_file, dirs, clones, usage_log, runs, cmd, args, cwd, config,
                   profile, rule, selected, bound, tool_status>>
    /\ UNCHANGED editors

(***************************************************************************)
(* fn handle_use_command: gix use [name].                                  *)
(***************************************************************************)
Use(name, place, answer, saved) ==
    /\ pc = "idle"
    /\ runs < MaxRuns
    /\ runs' = runs + 1
    /\ cmd' = "use"
    /\ cwd' = place
    /\ answer = Interrupted \/ answer < Len(global_file.profiles)
    /\ LET here == Here(place)
           cfg == load_config(global_file)
           p == IF name # None THEN find_by_name(cfg.profiles, name)
                ELSE select_profile(cfg, answer)
           asked == IF name = None
                    THEN <<Prompt("select", IF answer = Interrupted THEN "err" ELSE "chosen")>>
                    ELSE <<>>
       IN  IF ~is_inside_git_repo(here, clones)
           THEN /\ trace' = <<RevParse(here)>>
                /\ Exit(0)
                /\ UNCHANGED <<config, profile, local_file, git_config, last_bound, bound>>
           ELSE IF ~cfg.ok
           THEN /\ trace' = <<RevParse(here)>>
                /\ Exit(EXIT_FAILURE)
                /\ UNCHANGED <<config, profile, local_file, git_config, last_bound, bound>>
           ELSE IF cfg.profiles = <<>>
           THEN /\ trace' = <<RevParse(here)>>
                /\ config' = cfg
                /\ Exit(0)
                /\ UNCHANGED <<profile, local_file, git_config, last_bound, bound>>
           ELSE IF p = NoProfile
           THEN /\ trace' = <<RevParse(here)>> \o asked
                /\ config' = cfg
                /\ profile' = p
                /\ Exit(EXIT_FAILURE)
                /\ UNCHANGED <<local_file, git_config, last_bound, bound>>
           ELSE IF saved # "ok"
           THEN /\ trace' = <<RevParse(here)>> \o asked
                /\ config' = cfg
                /\ profile' = p
                /\ local_file' = save_local_profile_selection_to_dir(
                                     local_file, p.profile_name, local_config_dir(place), saved)
                /\ Exit(EXIT_FAILURE)
                /\ UNCHANGED <<git_config, last_bound, bound>>
           ELSE /\ trace' = <<RevParse(here)>> \o asked
                              \o <<LocalWrite(local_config_dir(place))>>
                              \o apply_spawns(p, here)
                /\ config' = cfg
                /\ profile' = p
                /\ local_file' = save_local_profile_selection_to_dir(
                                     local_file, p.profile_name, local_config_dir(place), saved)
                /\ git_config' = apply_local_config_to_dir(git_config, p, here, clones)
                /\ last_bound' = remember_bind(last_bound, p.profile_name, here, clones)
                /\ bound' = TRUE
                /\ Exit(0)
    /\ UNCHANGED <<global_file, dirs, clones, usage_log, args, rule, selected, tool_status>>
    /\ UNCHANGED editors

\* the process has exited; the next invocation starts from the files it left
Finish ==
    /\ pc = "done"
    /\ pc' = "idle"
    /\ usage_log' = <<>>
    /\ cmd' = "none"
    /\ args' = <<>>
    /\ cwd' = "root"
    /\ config' = ConfigErr
    /\ profile' = NoProfile
    /\ rule' = 0
    /\ selected' = FALSE
    /\ bound' = FALSE
    /\ trace' = <<>>
    /\ tool_status' = NoStatus
    /\ exit_code' = NotExited
    /\ UNCHANGED <<world, runs>>
    /\ UNCHANGED editors

Answers == {Interrupted, 0, 1}

Next ==
    \/ \E i \in Invocations : Invoke(i[1], i[2])
    \/ \E st \in ToolStatuses : PassThrough(st)
    \/ DetectProfile
    \/ \E answer \in Answers : SelectProfile(answer)
    \/ \E answer \in {"yes", "no", "err"}, saved \in SaveOutcomes : ConfirmBind(answer, saved)
    \/ \E written \in BOOLEAN : LogUsage(written)
    \/ \E o \in OriginAnswers, outcome \in CredentialOutcomes : InjectCredential(o, outcome)
    \/ \E st \in ToolStatuses : Delegate(st)
    \/ \E saved \in SaveOutcomes : PostClone(saved)
    \/ \E name \in DefaultNames, place \in Places, answer \in Answers, saved \in SaveOutcomes :
         Use(name, place, answer, saved)
    \/ Finish

Spec == Init /\ [][Next]_vars

(***************************************************************************)
(* Profile::validate (src/profile.rs).                                     *)
(***************************************************************************)
\* str::contains(char)
contains(s, c) == \E i \in 1..Len(s) : s[i] = c

\* what the key path of a profile is on disk
KeyStates == {"file", "dir", "missing"}

\* the Result of validate (ok), and whether the filesystem was inspected
Validated(ok, inspected) == [ok |-> ok, inspected |-> inspected]

\* fn validate_ssh_key: the path must exist and be a regular file (the
\* permission check only prints a warning)
validate_ssh_key(key_path, key_state) ==
    IF key_state = "missing" THEN Validated(FALSE, TRUE)
    ELSE IF key_state # "file" THEN Validated(FALSE, TRUE)
    ELSE Validated(TRUE, TRUE)

\* fn Profile::validate
validate(p, key_state) ==
    IF ~contains(p.email, "@") \/ ~contains(p.email, ".") THEN Validated(FALSE, FALSE)
    ELSE IF p.profile_name = <<>> THEN Validated(FALSE, FALSE)
    ELSE IF contains(p.profile_name, "/") \/ contains(p.profile_name, "\\")
    THEN Validated(FALSE, FALSE)
    ELSE IF p.auth.kind = "SSH" THEN validate_ssh_key(p.auth.val, key_state)
    ELSE Validated(TRUE, FALSE)

\* an inspection of a path on disk (exists, is_file) and what it found
Stat(path, key_state) ==
    [ev |-> "stat", argv |-> <<path>>, env |-> None, stdin |-> None, dir |-> NoRepo,
     reply |-> key_state]

\* the inspections validate makes
validate_stats(p, key_state) ==
    IF validate(p, key_state).inspected THEN <<Stat(p.auth.val, key_state)>> ELSE <<>>

(***************************************************************************)
(* The commands that edit the global config (src/profile.rs, src/git.rs)   *)
(* and fn save_config (src/config.rs).                                     *)
(***************************************************************************)
\* the commands one run of the editing model issues
MaxEdits == 3

\* a bug: default_profile is written as null
save_config_null_default(cfg) ==
    GlobalDoc(cfg.profiles, TRUE, cfg.intercepted_commands, None)

\* serde_json::to_writer_pretty(file, config): every field is written
save_config(cfg) ==
    GlobalDoc(cfg.profiles, TRUE, cfg.intercepted_commands, cfg.default_profile)

\* the index of the first profile with a name, 0 when there is none
\* (iter().position)
position(profiles, profile_name) ==
    IF \E i \in 1..Len(profiles) : profiles[i].profile_name = profile_name
    THEN CHOOSE i \in 1..Len(profiles) :
            /\ profiles[i].profile_name = profile_name
            /\ \A j \in 1..(i - 1) : profiles[j].profile_name # profile_name
    ELSE 0

\* profiles.retain(|p| p.profile_name != profile_name)
retain(profiles, profile_name) ==
    SelectSeq(profiles, LAMBDA p : p.profile_name # profile_name)

\* what the user types into profile add: the two profiles, a profile with
\* the first one's name, and a profile whose name holds a path separator
AddInputs ==
    {ProfW, ProfP,
     Profile(ProfW.profile_name, <<"W", "2">>, <<"w", "@", "x", ".", "c">>, Token(<<"t", "2">>)),
     Profile(<<"a", "/", "b">>, <<"B">>, <<"b", "@", "x", ".", "c">>, Token(<<"t", "3">>))}

\* a command that edits the global config starts: it counts as a run
StartEdit(command) ==
    /\ pc = "idle"
    /\ runs < MaxEdits
    /\ runs' = runs + 1
    /\ cmd' = command
    /\ UNCHANGED <<world, usage_log, args, rule, selected, bound, tool_status>>
    /\ UNCHANGED editors

\* gix profile list
ProfileList ==
    /\ StartEdit("profile_list")
    /\ config' = load_config(global_file)
    /\ Exit(IF config'.ok THEN 0 ELSE EXIT_FAILURE)
    /\ UNCHANGED <<cwd, profile, trace>>

\* gix profile add: completed is FALSE when a prompt fails or the token is empty
ProfileAdd(new_profile, key_state, completed) ==
    /\ StartEdit("profile_add")
    /\ UNCHANGED cwd
    /\ LET cfg == load_config(global_file)
           dup == \E i \in 1..Len(cfg.profiles) :
                     cfg.profiles[i].profile_name = new_profile.profile_name
           go == cfg.ok /\ completed /\ ~dup /\ validate(new_profile, key_state).ok
       IN  /\ config' = IF go THEN [cfg EXCEPT !.profiles = Append(@, new_profile)] ELSE cfg
           /\ profile' = IF cfg.ok /\ completed /\ ~dup THEN new_profile ELSE NoProfile
           /\ trace' = IF cfg.ok /\ completed /\ ~dup
                       THEN validate_stats(new_profile, key_state) ELSE <<>>
           /\ IF go THEN pc' = "save_create" /\ UNCHANGED exit_code
              ELSE Exit(EXIT_FAILURE)

\* the authentication is kept at the prompt of profile edit
KeepAuth == NoProfile.auth

\* the name a command works on: the one given, or the one selected at the
\* prompt (None when there is nothing to select or the prompt fails)
target_name(cfg, name, answer) ==
    IF name # None THEN name
    ELSE IF cfg.profiles = <<>> \/ answer = Interrupted THEN None
    ELSE cfg.profiles[answer + 1].profile_name

\* the profile edit leaves in place of p
edited(p, new_name, new_auth) ==
    [p EXCEPT !.profile_name = IF new_name = None THEN @ ELSE new_name,
              !.auth = IF new_auth = KeepAuth THEN @ ELSE new_auth]

\* gix profile edit [name]: without profiles to select from, or when the name
\* is not found, nothing happens; a failing prompt or validation is an error
ProfileEdit(name, answer, new_name, new_auth, key_state, completed) ==
    /\ StartEdit("profile_edit")
    /\ UNCHANGED cwd
    /\ answer = Interrupted \/ answer < Len(load_config(global_file).profiles)
    /\ LET cfg == load_config(global_file)
           target == target_name(cfg, name, answer)
           idx == position(cfg.profiles, target)
           p == IF idx = 0 THEN NoProfile ELSE edited(cfg.profiles[idx], new_name, new_auth)
           asked == cfg.ok /\ idx # 0 /\ completed
           go == asked /\ validate(p, key_state).ok
       IN  /\ config' = IF go THEN [cfg EXCEPT !.profiles[idx] = p] ELSE cfg
           /\ profile' = IF asked THEN p ELSE NoProfile
           /\ trace' = IF asked THEN validate_stats(p, key_state) ELSE <<>>
           /\ IF go THEN pc' = "save_create" /\ UNCHANGED exit_code
              ELSE IF ~cfg.ok THEN Exit(EXIT_FAILURE)
              ELSE IF name = None /\ cfg.profiles = <<>> THEN Exit(0)
              ELSE IF name = None /\ answer = Interrupted THEN Exit(EXIT_FAILURE)
              ELSE IF idx = 0 THEN Exit(0)
              ELSE Exit(EXIT_FAILURE)

\* gix profile delete [name]: the two confirmations are both given ("yes"),
\* one is refused ("no") or one fails ("err")
ProfileDelete(name, answer, confirmed) ==
    /\ StartEdit("profile_delete")
    /\ answer = Interrupted \/ answer < Len(load_config(global_file).profiles)
    /\ LET cfg == load_config(global_file)
           target == target_name(cfg, name, answer)
           go == cfg.ok /\ target # None /\ confirmed = "yes"
       IN  /\ config' = IF go THEN [cfg EXCEPT !.profiles = retain(@, target)] ELSE cfg
           /\ IF go THEN pc' = "save_create" /\ UNCHANGED exit_code
              ELSE IF ~cfg.ok THEN Exit(EXIT_FAILURE)
              ELSE IF name = None /\ cfg.profiles = <<>> THEN Exit(0)
              ELSE IF target = None THEN Exit(EXIT_FAILURE)
              ELSE IF confirmed = "no" THEN Exit(0)
              ELSE Exit(EXIT_FAILURE)
    /\ UNCHANGED <<cwd, profile, trace>>

\* fn handle_set_command: gix set [name]; at the prompt the entry after the
\* last profile clears the default
SetDefault(name, answer) ==
    /\ StartEdit("set")
    /\ answer = Interrupted \/ answer <= Len(load_config(global_file).profiles)
    /\ LET cfg == load_config(global_file)
           known == \E i \in 1..Len(cfg.profiles) : cfg.profiles[i].profile_name = name
           chosen == IF name # None THEN name
                     ELSE IF answer = Len(cfg.profiles) THEN None
                     ELSE cfg.profiles[answer + 1].profile_name
           go == /\ cfg.ok /\ cfg.profiles # <<>>
                 /\ IF name # None THEN known ELSE answer # Interrupted
       IN  /\ config' = IF go THEN [cfg EXCEPT !.default_profile = chosen] ELSE cfg
           /\ IF go THEN pc' = "save_create" /\ UNCHANGED exit_code
              ELSE IF ~cfg.ok THEN Exit(EXIT_FAILURE)
              ELSE IF cfg.profiles = <<>> THEN Exit(0)
              ELSE Exit(EXIT_FAILURE)
    /\ UNCHANGED <<cwd, profile, trace>>

\* the selections of the commands prompt, in the order of all_commands
Selections == {<<>>, <<S_push>>, <<S_clone, S_commit>>}

\* fn handle_commands_config: gix commands
CommandsConfig(selection, completed) ==
    /\ StartEdit("commands")
    /\ LET cfg == load_config(global_file)
           go == cfg.ok /\ completed
       IN  /\ config' = IF go THEN [cfg EXCEPT !.intercepted_commands = selection] ELSE cfg
           /\ IF go THEN pc' = "save_create" /\ UNCHANGED exit_code
              ELSE Exit(EXIT_FAILURE)
    /\ UNCHANGED <<cwd, profile, trace>>

\* git rev-parse --show-toplevel in directory d (fn get_git_root)
ShowToplevel(d) ==
    Spawn(<<S_rev_parse,
            <<"-", "-", "s", "h", "o", "w", "-", "t", "o", "p", "l", "e", "v", "e", "l">>>>,
          None, None, d)

\* fn handle_status_command: gix status; outside a working tree the config
\* is not loaded; without a detected profile git config user.email is shown
Status(place) ==
    /\ StartEdit("status")
    /\ cwd' = place
    /\ LET here == Here(place)
           inside == is_inside_git_repo(here, clones)
           cfg == load_config(global_file)
           found == detect_profile(cfg, load_local_config(local_file[local_config_dir(place)]),
                                   inside,
                                   git_config_get(git_config, here, clones, "user_email"))
       IN  /\ config' = IF inside THEN cfg ELSE config
           /\ profile' = IF inside /\ cfg.ok THEN found.profile ELSE NoProfile
           /\ trace' = IF ~inside \/ ~cfg.ok THEN <<RevParse(here)>>
                       ELSE <<RevParse(here), ShowToplevel(here)>>
                            \o detect_profile_spawns(here, found.queries)
                            \o (IF found.profile = NoProfile
                                THEN <<Spawn(<<S_config, S_user_email>>, None, None, here)>>
                                ELSE <<>>)
           /\ Exit(IF inside /\ ~cfg.ok THEN EXIT_FAILURE ELSE 0)

\* fn save_config, step by step: create_dir_all and File::create (the file
\* is truncated), to_writer_pretty (the document is written),
\* set_permissions; each step can fail, which ends the command
SaveCreate(ok) ==
    /\ pc = "save_create"
    /\ IF ok THEN global_file' = GlobalPartial /\ pc' = "save_write" /\ UNCHANGED exit_code
       ELSE Exit(EXIT_FAILURE) /\ UNCHANGED global_file
    /\ UNCHANGED <<local_file, git_config, dirs, clones, last_bound, usage_log, runs, cmd,
                   args, cwd, config, profile, rule, selected, bound, trace, tool_status>>
    /\ UNCHANGED editors

SaveWrite(ok) ==
    /\ pc = "save_write"
    /\ IF ok THEN global_file' = save_config(config) /\ pc' = "save_perm" /\ UNCHANGED exit_code
       ELSE Exit(EXIT_FAILURE) /\ UNCHANGED global_file
    /\ UNCHANGED <<local_file, git_config, dirs, clones, last_bound, usage_log, runs, cmd,
                   args, cwd, config, profile, rule, selected, bound, trace, tool_status>>
    /\ UNCHANGED editors

SavePermissions(ok) ==
    /\ pc = "save_perm"
    /\ Exit(IF ok THEN 0 ELSE EXIT_FAILURE)
    /\ UNCHANGED <<world, usage_log, runs, cmd, args, cwd, config, profile, rule, selected,
                   bound, trace, tool_status>>
    /\ UNCHANGED editors

\* the process is killed in the middle of save_config: it ends without an
\* exit code of its own
Interrupt ==
    /\ pc \in {"save_create", "save_write", "save_perm"}
    /\ pc' = "done"
    /\ UNCHANGED <<world, usage_log, runs, cmd, args, cwd, config, profile, rule, selected,
                   bound, trace, tool_status, exit_code>>
    /\ UNCHANGED editors

\* the editing model starts without a global config file, with an unparsable
\* one, or with the one two profile add commands and a set command leave; the
\* repository at root is bound to the second profile or to none
EditGlobalFiles ==
    {GlobalMissing, GlobalCorrupt,
     GlobalDoc(<<ProfW, ProfP>>, TRUE, default_intercepted_commands, ProfW.profile_name)}

EditInit ==
    /\ editors = NoEditors
    /\ global_file \in EditGlobalFiles
    /\ \E lf \in {LocalMissing, LocalDoc(ProfP.profile_name)} :
         local_file = [d \in AllDirs |-> IF d = Here("root") THEN lf ELSE LocalMissing]
    /\ git_config = [d \in AllDirs |-> NoSettings]
    /\ dirs = {}
    /\ clones = {}
    /\ last_bound = [d \in AllDirs |-> None]
    /\ runs = 0
    /\ Idle

\* the steps of the editing commands and of the other handlers; at the
\* prompts of profile edit the name is kept (None), becomes the first
\* profile's or a new one, and the authentication is kept or becomes a token
EditNext ==
    \/ ProfileList
    \/ \E p \in AddInputs, key_state \in KeyStates, completed \in BOOLEAN :
         ProfileAdd(p, key_state, completed)
    \/ \E name \in DefaultNames, answer \in Answers,
          new_name \in {None, ProfW.profile_name, <<"q">>},
          new_auth \in {KeepAuth, Token(<<"t", "9">>)},
          key_state \in KeyStates, completed \in BOOLEAN :
         ProfileEdit(name, answer, new_name, new_auth, key_state, completed)
    \/ \E name \in DefaultNames, answer \in Answers, confirmed \in {"yes", "no", "err"} :
         ProfileDelete(name, answer, confirmed)
    \/ \E name \in DefaultNames, answer \in Answers \cup {2} : SetDefault(name, answer)
    \/ \E selection \in Selections, completed \in BOOLEAN : CommandsConfig(selection, completed)
    \/ \E place \in Places : Status(place)
    \/ \E ok \in BOOLEAN : SaveCreate(ok)
    \/ \E ok \in BOOLEAN : SaveWrite(ok)
    \/ \E ok \in BOOLEAN : SavePermissions(ok)
    \/ Interrupt
    \/ Next

EditSpec == EditInit /\ [][EditNext]_vars

(***************************************************************************)
(* Profile::validate applied to the profiles a caller can hand it.         *)
(***************************************************************************)
\* a profile is about to be validated
ValidateInit ==
    /\ editors = NoEditors
    /\ global_file = GlobalMissing
    /\ local_file = [d \in AllDirs |-> LocalMissing]
    /\ git_config = [d \in AllDirs |-> NoSettings]
    /\ dirs = {}
    /\ clones = {}
    /\ last_bound = [d \in AllDirs |-> None]
    /\ runs = 0
    /\ pc = "idle"
    /\ usage_log = <<>>
    /\ cmd = "none"
    /\ args = <<>>
    /\ cwd = "root"
    /\ config = ConfigErr
    /\ profile \in
          {Profile(n, ProfW.name, e, a) :
              n \in {<<>>, <<"a", "/", "b">>, <<"a", "\\", "b">>, ProfW.profile_name},
              e \in {<<"n", "o", "t", "-", "a", "n", "-", "e", "m", "a", "i", "l">>,
                     <<"a", "@", "b", ".", "c", "o">>, <<"a", ".", "b", "@", "c">>,
                     <<"a", "@", "b">>, <<"a", ".", "b">>, <<>>, ProfW.email},
              a \in {ProfW.auth, ProfP.auth}}
    /\ rule = 0
    /\ selected = FALSE
    /\ bound = FALSE
    /\ trace = <<>>
    /\ tool_status = NoStatus
    /\ exit_code = NotExited

\* profile.validate()? in a caller that does nothing else: Ok ends with 0,
\* Err with the failure code; the inspections of the key path are traced
Validate(key_state) ==
    /\ pc = "idle"
    /\ cmd' = "validate"
    /\ trace' = validate_stats(profile, key_state)
    /\ Exit(IF validate(profile, key_state).ok THEN 0 ELSE EXIT_FAILURE)
    /\ UNCHANGED <<world, usage_log, runs, args, cwd, config, profile, rule, selected, bound,
                   tool_status>>
    /\ UNCHANGED editors

ValidateNext == \E key_state \in KeyStates : Validate(key_state)

ValidateSpec == ValidateInit /\ [][ValidateNext]_vars

(***************************************************************************)
(* fn detect_cloned_dir on its own: any argument vector of a clone, any    *)
(* set of directories that exist under the invoking directory.             *)
(***************************************************************************)
\* the longest list of arguments after clone
MaxCloneArgs == 2

\* what detect_cloned_dir returned: the directory, NoRepo for None
ClonedDir(dir) ==
    [ev |-> "cloned_dir", argv |-> <<>>, env |-> None, stdin |-> None, dir |-> dir,
     reply |-> "none"]

\* clone followed by up to MaxCloneArgs of: two https URLs (of r and of d),
\* an ssh URL of r, the two directory names and a flag
DetectArgs ==
    LET words == {S_url_https,
                  <<"h", "t", "t", "p", "s", ":", "/", "/", "h", "/", "o", "/", "d", ".", "g", "i", "t">>,
                  <<"g", "i", "t", "@", "h", ":", "o", "/", "r">>,
                  S_r, S_d, <<"-", "q">>}
    IN  UNION {{<<S_clone>> \o v : v \in [1..n -> words]} : n \in 1..MaxCloneArgs}

\* a successful clone has just ended at the repository root
DetectInit ==
    /\ editors = NoEditors
    /\ global_file = GlobalMissing
    /\ local_file = [d \in AllDirs |-> LocalMissing]
    /\ git_config = [d \in AllDirs |-> NoSettings]
    /\ dirs \in SUBSET {Child("root", n) : n \in ChildNames}
    /\ clones = {}
    /\ last_bound = [d \in AllDirs |-> None]
    /\ runs = 0
    /\ pc = "idle"
    /\ usage_log = <<>>
    /\ cmd = "none"
    /\ args \in DetectArgs
    /\ cwd = "root"
    /\ config = ConfigErr
    /\ profile = NoProfile
    /\ rule = 0
    /\ selected = FALSE
    /\ bound = FALSE
    /\ trace = <<>>
    /\ tool_status = NoStatus
    /\ exit_code = NotExited

\* detect_cloned_dir(&args) in a caller that does nothing else
DetectClonedDir ==
    /\ pc = "idle"
    /\ cmd' = "detect_cloned_dir"
    /\ LET name == detect_cloned_dir(args, existing_names(cwd, dirs))
       IN  trace' = <<ClonedDir(IF name = None THEN NoRepo ELSE Child(cwd, name))>>
    /\ Exit(0)
    /\ UNCHANGED <<world, usage_log, runs, args, cwd, config, profile, rule, selected, bound,
                   tool_status>>
    /\ UNCHANGED editors

DetectNext == DetectClonedDir

DetectSpec == DetectInit /\ [][DetectNext]_vars

(***************************************************************************)
(* Two invocations that edit the global config at the same time: gix       *)
(* profile edit p (a new token of the same length) and gix commands (a     *)
(* selection of the same encoded length). save_config writes through an    *)
(* unbuffered File, one write per fragment: the model takes the profiles   *)
(* array and the rest of the document as two writes, each at the writer's  *)
(* own offset. Both edits keep the length of the part they change, so a    *)
(* part written by one editor lands exactly on the other's.                *)
(***************************************************************************)
\* the edit a handler makes between load_config and save_config
race_edit(cfg, op) ==
    IF op = "profile_edit"
    THEN LET idx == position(cfg.profiles, ProfP.profile_name)
         IN  IF idx = 0 THEN cfg
             ELSE [cfg EXCEPT !.profiles[idx] = edited(@, None, Token(<<"t", "9">>))]
    ELSE [cfg EXCEPT !.intercepted_commands = <<S_clone, S_commit>>]

\* a write of the profiles array at the beginning of the file, and a write
\* of intercepted_commands and default_profile behind it; a file that holds
\* both parts is a document, whoever wrote them
write_head(file, cfg) ==
    [file EXCEPT !.profiles = cfg.profiles,
                 !.kind = IF file.has_ic THEN "doc" ELSE "partial"]
write_tail(file, cfg) ==
    [file EXCEPT !.has_ic = TRUE,
                 !.intercepted_commands = cfg.intercepted_commands,
                 !.default_profile = cfg.default_profile,
                 !.kind = IF file.profiles # <<>> THEN "doc" ELSE "partial"]

\* the file both editors start from
RaceDoc == GlobalDoc(<<ProfW, ProfP>>, TRUE, <<S_commit, S_clone>>, ProfW.profile_name)

RaceInit ==
    /\ editors = NoEditors
    /\ global_file = RaceDoc
    /\ local_file = [d \in AllDirs |-> LocalMissing]
    /\ git_config = [d \in AllDirs |-> NoSettings]
    /\ dirs = {}
    /\ clones = {}
    /\ last_bound = [d \in AllDirs |-> None]
    /\ runs = 0
    /\ Idle

\* let mut config = load_config()?, then the prompts
RaceLoad(e, op) ==
    /\ editors[e].pc = "idle"
    /\ LET cfg == load_config(global_file)
       IN  editors' = [editors EXCEPT ![e] = [@ EXCEPT !.pc = IF cfg.ok THEN "prompt" ELSE "failed",
                                                      !.op = op,
                                                      !.config = cfg]]
    /\ UNCHANGED <<world, usage_log, runs, pc, cmd, args, cwd, config, profile, rule,
                   selected, bound, trace, tool_status, exit_code>>

\* the prompts are answered, the Config is changed and save_config starts:
\* File::create truncates the file
RaceCreate(e) ==
    /\ editors[e].pc = "prompt"
    /\ editors' = [editors EXCEPT ![e] = [@ EXCEPT !.pc = "head",
                                                   !.config = race_edit(@, editors[e].op)]]
    /\ global_file' = GlobalPartial
    /\ UNCHANGED <<local_file, git_config, dirs, clones, last_bound, usage_log, runs, pc,
                   cmd, args, cwd, config, profile, rule, selected, bound, trace,
                   tool_status, exit_code>>

\* serde_json::to_writer_pretty, first part
RaceWriteHead(e) ==
    /\ editors[e].pc = "head"
    /\ editors' = [editors EXCEPT ![e] = [@ EXCEPT !.pc = "tail"]]
    /\ global_file' = write_head(global_file, editors[e].config)
    /\ UNCHANGED <<local_file, git_config, dirs, clones, last_bound, usage_log, runs, pc,
                   cmd, args, cwd, config, profile, rule, selected, bound, trace,
                   tool_status, exit_code>>

\* serde_json::to_writer_pretty, second part; save_config returns and the
\* editor is the order-th to have saved
RaceWriteTail(e) ==
    /\ editors[e].pc = "tail"
    /\ editors' = [editors EXCEPT ![e] =
                      [@ EXCEPT !.pc = "saved",
                                !.order = 1 + Cardinality({f \in {1, 2} : editors[f].pc = "saved"})]]
    /\ global_file' = write_tail(global_file, editors[e].config)
    /\ UNCHANGED <<local_file, git_config, dirs, clones, last_bound, usage_log, runs, pc,
                   cmd, args, cwd, config, profile, rule, selected, bound, trace,
                   tool_status, exit_code>>

RaceNext ==
    \/ \E e \in {1, 2}, op \in {"profile_edit", "commands"} : RaceLoad(e, op)
    \/ \E e \in {1, 2} : RaceCreate(e)
    \/ \E e \in {1, 2} : RaceWriteHead(e)
    \/ \E e \in {1, 2} : RaceWriteTail(e)

RaceSpec == RaceInit /\ [][RaceNext]_vars

(***************************************************************************)
(* The claims.                                                             *)
(***************************************************************************)
\* the loaded config does not list the first token of the invocation
NotIntercepted ==
    /\ cmd = "git"
    /\ config.ok
    /\ args # <<>>
    /\ \A i \in 1..Len(config.intercepted_commands) :
         config.intercepted_commands[i] # args[1]

\* C1: an invocation whose first token is not in the loaded
\* intercepted_commands, whatever the two config files hold, starts nothing
\* before the tool, starts the tool once with exactly the original arguments
\* and no environment override, and exits with the exit code of the tool.
C1_PassThroughTransparent ==
    NotIntercepted =>
        /\ pc \in {"pass", "done"}
        /\ pc = "pass" => trace = <<>>
        /\ (pc = "done" /\ tool_status.kind \in {"exit", "signal"}) =>
              trace = <<Spawn(args, None, None, Here(cwd))>>
        /\ (pc = "done" /\ tool_status.kind = "exit") =>
              exit_code = tool_status.code

\* C1 happens: a pass-through ended with the tool's code 128 while the
\* default profile dangles and the local config file is unparsable
C1_Witness ==
    /\ NotIntercepted
    /\ pc = "done"
    /\ tool_status = Exited(128)
    /\ exit_code = 128
    /\ config.default_profile = S_z
    /\ local_file[Here(cwd)] = LocalCorrupt

\* the invocation has just run detect_profile: it is about to select, or it
\* goes on with the resolved profile
AtResolved == cmd = "git" /\ (pc = "select" \/ (pc = "log" /\ ~selected))

\* the profile names the loaded config knows
KnownNames == {config.profiles[i].profile_name : i \in 1..Len(config.profiles)}

\* the selected_profile of the local config file the invocation reads (the
\* .gix/config.json of the invoking directory), None when it has none
LocalName ==
    LET f == local_file[Here(cwd)]
    IN  IF f.kind = "doc" THEN f.selected_profile ELSE None

\* the user.email of the working tree the invoking directory is in, None
\* outside a working tree or when it is unset
WorktreeEmail ==
    LET repo == RepoOf(Here(cwd), clones)
    IN  IF repo = NoRepo THEN None ELSE git_config[repo].user_email

\* the working-tree email has been read
EmailQueried ==
    \E i \in 1..Len(trace) :
        trace[i].ev = "spawn" /\ trace[i].argv = <<S_config, S_local, S_user_email>>

\* C2: detect_profile is first-match-wins: a local binding to a known profile
\* wins over the default and the working-tree email; without one, a default
\* that names a known profile wins over the email; only when both are absent
\* or unknown is the working-tree email read, and it is matched exactly
\* against the profiles' emails.
C2_StrictPrecedence ==
    AtResolved =>
        /\ LocalName \in KnownNames =>
              rule = 1 /\ profile.profile_name = LocalName /\ ~EmailQueried
        /\ (LocalName \notin KnownNames /\ config.default_profile \in KnownNames) =>
              rule = 2 /\ profile.profile_name = config.default_profile /\ ~EmailQueried
        /\ (LocalName \notin KnownNames /\ config.default_profile \notin KnownNames) =>
              IF \E i \in 1..Len(config.profiles) : config.profiles[i].email = WorktreeEmail
              THEN rule = 3 /\ profile.email = WorktreeEmail /\ EmailQueried
              ELSE rule = 0 /\ profile = NoProfile
        /\ profile # NoProfile => \E i \in 1..Len(config.profiles) : config.profiles[i] = profile

\* C2 happens: the local binding names one profile, the default another, and
\* the working-tree email is the bound profile's in another case
C2_Witness ==
    /\ AtResolved
    /\ LocalName = ProfP.profile_name
    /\ config.default_profile = ProfW.profile_name
    /\ WorktreeEmail = ProfP.email
    /\ profile = ProfP
    /\ rule = 1


\* the repository the invoking directory is in, NoRepo outside a working tree
InvokingRepo == RepoOf(Here(cwd), clones)

\* the selected_profile of the local config file at the root of the
\* repository the invoking directory is in, None when there is none
RootLocalName ==
    IF InvokingRepo = NoRepo \/ local_file[InvokingRepo].kind # "doc" THEN None
    ELSE local_file[InvokingRepo].selected_profile

\* the profile last bound (use, bind prompt, post-clone) to the repository
\* the invoking directory is in, None when there is none
BoundName == IF InvokingRepo = NoRepo THEN None ELSE last_bound[InvokingRepo]

\* C3: from the root or any subdirectory of a repository whose root has a
\* local config naming a known profile, detect_profile yields that profile by
\* rule 1; and after a profile was bound to the repository with use or the
\* bind prompt, resolving from any directory of that repository yields the
\* bound profile.
C3_ResolvedFromAnyDirectory ==
    (AtResolved /\ InvokingRepo # NoRepo) =>
        /\ RootLocalName \in KnownNames =>
              rule = 1 /\ profile.profile_name = RootLocalName
        /\ BoundName \in KnownNames =>
              profile.profile_name = BoundName

\* the local config file the invocation reads is missing, unparsable, or
\* names no profile of the loaded list
LocalUnusable == LocalName \notin KnownNames

\* the loaded default_profile names no profile of the loaded list
DefaultDangling == config.default_profile # None /\ config.default_profile \notin KnownNames

\* the detect_profile step of an invocation whose references dangle: it ends
\* without an exit, and the next rule in the precedence decides
DanglingStep ==
    (pc = "detect" /\ (LocalUnusable \/ DefaultDangling)) =>
        /\ pc' \in {"select", "log"}
        /\ exit_code' = NotExited
        /\ LocalUnusable => rule' # 1
        /\ (LocalUnusable /\ config.default_profile \in KnownNames) =>
              rule' = 2 /\ profile'.profile_name = config.default_profile
        /\ (LocalUnusable /\ DefaultDangling) =>
              /\ rule' \in {0, 3}
              /\ (\E i \in 1..Len(config.profiles) : config.profiles[i].email = WorktreeEmail)
                    => (rule' = 3 /\ profile'.email = WorktreeEmail)

\* C4: a local selected_profile or a default_profile that names no profile of
\* the list, and a local config file that is missing or unparsable, count as
\* no match: detect_profile goes on to the next rule and the command is never
\* failed or ended because of the dangling reference.
C4_DanglingIsNoMatch == [][DanglingStep]_vars

\* C4 happens: the local file and the default both name a profile that does
\* not exist, and the working-tree email decided
C4_Witness ==
    /\ AtResolved
    /\ local_file[Here(cwd)].kind = "doc"
    /\ LocalName = S_z
    /\ config.default_profile = S_z
    /\ rule = 3
    /\ profile = ProfP
    /\ exit_code = NotExited

\* an invocation of a listed subcommand while the loaded profile list is empty
NoProfilesIntercepted ==
    /\ cmd = "git"
    /\ config.ok
    /\ config.profiles = <<>>
    /\ args # <<>>
    /\ \E i \in 1..Len(config.intercepted_commands) :
         config.intercepted_commands[i] = args[1]

\* the events of the invocation that start the version-control tool
ToolSpawns == {i \in 1..Len(trace) : trace[i].ev = "spawn"}

\* C5 as stated: with an empty profile list an intercepted invocation ends in
\* the no-profiles failure with a non-zero exit code and starts no subprocess
\* of the version-control tool at all.
C5_NoSubprocessAtAll ==
    NoProfilesIntercepted =>
        /\ pc \in {"detect", "select", "done"}
        /\ pc = "done" => exit_code # 0
        /\ ToolSpawns = {}

\* C5, amended: with an empty profile list an intercepted invocation ends in
\* the no-profiles failure with exit code 1; no prompt is shown, nothing is
\* logged or written and the tool is never started with the invocation's
\* arguments; the only subprocesses are the read-only queries of
\* detect_profile (rev-parse --is-inside-work-tree and, inside a working
\* tree, config --local user.email).
C5_NoDelegation ==
    NoProfilesIntercepted =>
        /\ pc \in {"detect", "select", "done"}
        /\ pc = "done" => exit_code = 1
        /\ tool_status = NoStatus
        /\ usage_log = <<>>
        /\ ~selected /\ ~bound /\ profile = NoProfile
        /\ pc = "detect" => trace = <<>>
        /\ pc # "detect" =>
              trace = IF is_inside_git_repo(Here(cwd), clones)
                      THEN <<Spawn(<<S_rev_parse, S_is_inside>>, None, None, Here(cwd)),
                             Spawn(<<S_config, S_local, S_user_email>>, None, None, Here(cwd))>>
                      ELSE <<Spawn(<<S_rev_parse, S_is_inside>>, None, None, Here(cwd))>>

\* C5 happens: push inside a working tree with no profiles has failed after
\* the two queries
C5_Witness ==
    /\ NoProfilesIntercepted
    /\ args = <<S_push>>
    /\ pc = "done"
    /\ exit_code = 1
    /\ Len(trace) = 2

\* the bind prompt was shown in this invocation and got this reply
Replied(reply) == \E i \in 1..Len(trace) : trace[i] = Prompt("confirm", reply)

\* the bind prompt was shown in this invocation
ConfirmShown == \E i \in 1..Len(trace) : trace[i].ev = "confirm"

\* the three settings apply_local_config leaves for a profile
SettingsOf(p) ==
    [user_name |-> p.name, user_email |-> p.email, core_sshCommand |-> ssh_setting(p)]

\* an intercepted invocation between its profile and its delegation: the
\* local config file of the invoking directory and the three settings of its
\* repository have been written exactly when the profile was selected
\* interactively, inside a working tree, for a subcommand other than clone,
\* and the user confirmed
BoundBeforeDelegation ==
    (cmd = "git" /\ pc \in {"log", "credential", "delegate"}) =>
        /\ bound <=> (selected /\ InvokingRepo # NoRepo /\ ~(args[1] = S_clone) /\ Replied("yes"))
        /\ bound =>
              /\ local_file[Here(cwd)] = LocalDoc(profile.profile_name)
              /\ git_config[InvokingRepo] = SettingsOf(profile)
        /\ ConfirmShown => (selected /\ InvokingRepo # NoRepo /\ ~(args[1] = S_clone))
        /\ Replied("no") => ~bound

\* the steps of an intercepted invocation up to delegation write the local
\* config files and the repository settings only in the confirmed bind (one
\* whose write fails ends the command and may leave that file cut short), and
\* the bind prompt leaves the selected profile as it is
WritesOnlyWhenBinding ==
    (cmd = "git" /\ pc \in {"detect", "select", "confirm", "log", "credential", "delegate"}) =>
        /\ pc # "confirm" => UNCHANGED <<local_file, git_config>>
        /\ (pc = "confirm" /\ ~bound') =>
              /\ git_config' = git_config
              /\ \/ local_file' = local_file
                 \/ /\ pc' = "done" /\ exit_code' = 1
                    /\ local_file' = [local_file EXCEPT ![Here(cwd)] = LocalPartial]
        /\ (pc = "confirm" /\ pc' # "done" /\ ~bound') => local_file' = local_file
        /\ pc = "confirm" => profile' = profile

\* a declined bind still delegates with the selected profile
DeclinedStillUsed ==
    (cmd = "git" /\ Replied("no") /\ tool_status.kind \in {"exit", "signal"}) =>
        /\ selected
        /\ \E i \in 1..Len(trace) :
              /\ trace[i].ev = "spawn"
              /\ trace[i].argv = <<S_dash_c, S_user_name_eq \o profile.name,
                                   S_dash_c, S_user_email_eq \o profile.email>> \o args

Intercepted ==
    /\ cmd = "git"
    /\ config.ok
    /\ args # <<>>
    /\ \E i \in 1..Len(config.intercepted_commands) :
         config.intercepted_commands[i] = args[1]

\* the delegated tool was started in this invocation
ToolRan == tool_status.kind \in {"exit", "signal"}

\* the subprocesses of this invocation that carry a -c override
OverrideSpawns ==
    {i \in 1..Len(trace) : trace[i].ev = "spawn" /\ trace[i].argv[1] = S_dash_c}

\* C7: an intercepted invocation that reaches delegation with profile P
\* starts the tool exactly once with -c user.name=<P.name> -c
\* user.email=<P.email> followed by the original arguments in their order,
\* and the process exits with the tool's exit code; a profile chosen by the
\* working-tree email match gives user.email equal to that email.
C7_DelegatedIdentity ==
    Intercepted =>
        /\ ~ToolRan => OverrideSpawns = {}
        /\ ToolRan =>
              /\ profile # NoProfile
              /\ Cardinality(OverrideSpawns) = 1
              /\ \A i \in OverrideSpawns :
                    /\ trace[i].argv = <<S_dash_c, S_user_name_eq \o profile.name,
                                         S_dash_c, S_user_email_eq \o profile.email>> \o args
                    /\ trace[i].dir = Here(cwd)
                    /\ rule = 3 => trace[i].argv[4] = S_user_email_eq \o WorktreeEmail
        /\ (pc = "done" /\ tool_status.kind = "exit") => exit_code = tool_status.code

\* C7 happens: push resolved by the working-tree email was delegated and the
\* tool's code 128 is the exit code
C7_Witness ==
    /\ Intercepted
    /\ args = <<S_push>>
    /\ rule = 3
    /\ profile = ProfP
    /\ pc = "done"
    /\ tool_status = Exited(128)
    /\ exit_code = 128

\* a best-effort step of an intercepted invocation: whatever happens in the
\* usage log step or the credential step, the invocation goes on towards
\* delegation, and the post-clone step ends with the status of the clone
BestEffortStep ==
    cmd = "git" =>
        /\ pc = "log" => (pc' \in {"credential", "delegate"} /\ exit_code' = NotExited)
        /\ pc = "credential" => (pc' = "delegate" /\ exit_code' = NotExited)
        /\ pc = "postclone" => (pc' = "done" /\ exit_code' = 0)

\* C8: no best-effort step changes the outcome of an intercepted invocation:
\* when the usage log cannot be written, when the credential cannot be
\* submitted, or when the post-clone detection or binding fails, the command
\* still proceeds to delegation and exits as it would have otherwise.
C8_BestEffortNeverFatal == [][BestEffortStep]_vars

\* the exit codes an invocation ends with when the tool ran and failed
ToolFailureCodes ==
    {code_unwrap_or_1(st) : st \in {t \in ToolStatuses : t.kind \in {"exit", "signal"} /\ ~(t = Exited(0))}}

\* the invocation failed without the tool having run and failed: no profile
\* was available, the config was unreadable, a step before delegation failed
InternalFailure == cmd = "git" /\ pc = "done" /\ exit_code # 0 /\ ~ToolRan

\* C9: when the delegated tool exits non-zero the process exits with the same
\* code; when the invocation fails internally the process exits with a code
\* that no run-and-failed tool produces, so the exit code alone tells the two
\* kinds of failure apart.
C9_FailureCodesDistinct ==
    /\ (cmd = "git" /\ pc = "done" /\ tool_status.kind = "exit") => exit_code = tool_status.code
    /\ InternalFailure => exit_code \notin ToolFailureCodes

\* the post-clone step of an invocation: nothing is written, or the write of
\* the local config file fails part-way (a warning), or the local config file
\* of an existing directory under the invoking directory gets the used
\* profile's name and the three settings are applied inside it
PostCloneStep ==
    (cmd = "git" /\ pc = "postclone") =>
        /\ pc' = "done" /\ exit_code' = 0
        /\ \/ UNCHANGED <<local_file, git_config, trace>>
           \/ /\ UNCHANGED <<git_config, trace>>
              /\ \E n \in ChildNames :
                    /\ Child(cwd, n) \in dirs
                    /\ local_file' = [local_file EXCEPT ![Child(cwd, n)] = LocalPartial]
           \/ \E n \in ChildNames :
                LET d == Child(cwd, n)
                IN  /\ d \in dirs
                    /\ trace' = trace \o <<LocalWrite(d)>> \o apply_spawns(profile, d)
                    /\ local_file' = [local_file EXCEPT ![d] = LocalDoc(profile.profile_name)]
                    /\ d \in clones =>
                          git_config' = [git_config EXCEPT ![d] = SettingsOf(profile)]

\* after the delegated tool has run, only the post-clone step writes local
\* config files or repository settings
NoWriteAfterOtherDelegations ==
    (cmd = "git" /\ pc \in {"pass", "delegate", "done"}) =>
        UNCHANGED <<local_file, git_config>>

\* the post-clone step is reached only by a clone that exited successfully
PostCloneOnlyAfterClone ==
    (cmd = "git" /\ pc = "postclone") =>
        /\ args[1] = S_clone
        /\ tool_status = Exited(0)
        /\ profile # NoProfile
        /\ ~bound

StoredProfile(profile_name) == find_by_name(load_config(global_file).profiles, profile_name)

\* every repository a profile was bound to holds the settings of the profile
\* bound last: core.sshCommand is the key-pinned command of an SSH profile and
\* is absent for a Token profile
SettingsTrackLastBind ==
    \A d \in AllDirs :
        last_bound[d] # None =>
            LET p == StoredProfile(last_bound[d])
            IN  /\ git_config[d].user_name = p.name
                /\ git_config[d].user_email = p.email
                /\ (git_config[d].core_sshCommand # None) <=> (p.auth.kind = "SSH")
                /\ p.auth.kind = "SSH" =>
                      git_config[d].core_sshCommand = S_ssh_i \o p.auth.val \o S_identities_only

\* the directories whose local config file this step writes
WrittenNow ==
    {trace'[i].dir : i \in {j \in (IF pc = "idle" THEN 1 ELSE Len(trace) + 1)..Len(trace') :
                                trace'[j].ev = "write_local"}}

\* binding, from the same directory, the profile that is already bound there
\* changes neither the local config files nor the settings
RebindChangesNothing ==
    \A d \in WrittenNow :
        (/\ local_file[d] = LocalDoc(profile'.profile_name)
         /\ RepoOf(d, clones) # NoRepo
         /\ last_bound[RepoOf(d, clones)] = profile'.profile_name)
            => UNCHANGED <<local_file, git_config>>

JustSaved == pc = "save_perm"

\* C12 as stated: for every config the program saves (any profile list, any
\* default_profile, any intercepted_commands, the empty selection of the
\* commands prompt included), save_config then load_config gives the same
\* profiles in the same order, the same default_profile and the same
\* intercepted_commands.
C12_RoundTripExact ==
    JustSaved =>
        LET loaded == load_config(global_file)
        IN  /\ loaded.ok
            /\ loaded.profiles = config.profiles
            /\ loaded.default_profile = config.default_profile
            /\ loaded.intercepted_commands = config.intercepted_commands

\* C12, amended: save_config then load_config gives the same profiles in the
\* same order and the same default_profile; it gives the same
\* intercepted_commands when the saved list is not empty, and the default
\* commands pull, push, fetch, clone when the saved list is empty.
C12_RoundTripUpToDefaults ==
    JustSaved =>
        LET loaded == load_config(global_file)
        IN  /\ loaded.ok
            /\ loaded.profiles = config.profiles
            /\ loaded.default_profile = config.default_profile
            /\ config.intercepted_commands # <<>> =>
                  loaded.intercepted_commands = config.intercepted_commands
            /\ config.intercepted_commands = <<>> =>
                  loaded.intercepted_commands = <<S_pull, S_push, S_fetch, S_clone>>

\* C12 happens: the commands prompt saved the empty selection next to two
\* profiles and a default, and the file reloads with the default commands
C12_Witness ==
    /\ JustSaved
    /\ cmd = "commands"
    /\ config.intercepted_commands = <<>>
    /\ config.profiles = <<ProfW, ProfP>>
    /\ config.default_profile = ProfW.profile_name
    /\ load_config(global_file).intercepted_commands = <<S_pull, S_push, S_fetch, S_clone>>

\* the profile names of a list are pairwise different
UniqueNames(profiles) ==
    \A i, j \in 1..Len(profiles) :
        profiles[i].profile_name = profiles[j].profile_name => i = j

\* C13: starting from an empty global config, after any sequence of profile
\* add, edit (renaming included) and delete commands, no two profiles of the
\* persisted profile list have the same profile_name.
C13_PersistedNamesUnique ==
    global_file.kind = "doc" => UniqueNames(global_file.profiles)

\* the email contains an '@' and a '.' somewhere after it
DotFollowsAt(email) ==
    \E i, j \in 1..Len(email) : i < j /\ email[i] = "@" /\ email[j] = "."

\* the key path of the validated profile was inspected and is a regular file
KeyIsFile == trace # <<>> /\ trace[1].ev = "stat" /\ trace[1].reply = "file"

\* C14: validate succeeds exactly when the email contains an '@' and a '.'
\* that follows it, the profile_name is not empty and holds no '/' or '\',
\* and, for an SSH profile, the key path exists and is a regular file; the
\* filesystem is never inspected for a Token profile.
C14_ValidateExactly ==
    (cmd = "validate" /\ pc = "done") =>
        /\ (exit_code = 0) <=>
              /\ DotFollowsAt(profile.email)
              /\ profile.profile_name # <<>>
              /\ \A i \in 1..Len(profile.profile_name) :
                    profile.profile_name[i] \notin {"/", "\\"}
              /\ profile.auth.kind = "SSH" => KeyIsFile
        /\ profile.auth.kind = "Token" => trace = <<>>

\* C15: at every point of save_config and of
\* save_local_profile_selection_to_dir, also when the process is interrupted
\* or the write fails between two of their steps, the file at the final path
\* holds the complete previous content or the complete new content, never an
\* empty or partial document.
C15_NeverEmptyOrPartial ==
    /\ global_file.kind # "partial"
    /\ \A d \in AllDirs : local_file[d].kind # "partial"

\* the global config file exists and cannot be parsed
Unparsable == global_file.kind \in {"corrupt", "partial"}

\* a command starts in this step and loads the global config: every command
\* but use and status outside a working tree, which return before loading
StartsAndLoads ==
    /\ pc = "idle" /\ pc' # "idle"
    /\ \/ cmd' \in {"git", "profile_list", "profile_add", "profile_edit", "profile_delete",
                    "set", "commands"}
       \/ cmd' \in {"use", "status"} /\ is_inside_git_repo(Here(cwd'), clones)

\* a command that loads an unparsable global config ends at once with the
\* failure code, having started nothing but the inside-work-tree query and
\* written nothing; and no step other than the write of a save already under
\* way changes an unparsable file
UnparsableAborts ==
    /\ (Unparsable /\ StartsAndLoads) =>
          /\ pc' = "done" /\ exit_code' = 1
          /\ \A i \in 1..Len(trace') : trace'[i] = RevParse(Here(cwd'))
          /\ tool_status' = NoStatus
          /\ UNCHANGED <<global_file, local_file, git_config, usage_log>>
    /\ (Unparsable /\ pc # "save_write") => global_file' = global_file

\* C16: when the global config file exists but is not parsable, every command
\* that loads it (git command handling, use, status, profile management, set,
\* commands configuration) ends with a failure before any delegation and
\* leaves the file as it is: never deleted, reset to defaults or rewritten.
C16_UnparsableConfigAborts == [][UnparsableAborts]_vars

\* C16 happens: after an earlier command, the commands configuration has
\* failed on the unparsable file, which is still there
C16_Witness ==
    /\ global_file = GlobalCorrupt
    /\ runs = 2
    /\ cmd = "commands"
    /\ pc = "done"
    /\ exit_code = 1

(***************************************************************************)
(* C17: the token of a Token profile stays out of argument vectors and of  *)
(* the usage log.                                                           *)
(***************************************************************************)
\* the text sub occurs in the text s
occurs(s, sub) ==
    \E i \in 0..(Len(s) - Len(sub)) : SubSeq(s, i + 1, i + Len(sub)) = sub

\* the tokens of the Token profiles of the loaded configuration
Tokens == {config.profiles[i].auth.val :
              i \in {j \in 1..Len(config.profiles) : config.profiles[j].auth.kind = "Token"}}

\* the subprocesses started so far in this invocation
Spawned == {trace[i] : i \in {j \in 1..Len(trace) : trace[j].ev = "spawn"}}

\* no argument, no GIT_SSH_COMMAND and no log line holds a token, and the
\* only standard input that holds one is that of git credential approve
TokenOnlyOnStdin ==
    \A t \in Tokens :
        /\ \A e \in Spawned :
              /\ \A i \in 1..Len(e.argv) : ~occurs(e.argv[i], t)
              /\ ~occurs(e.env, t)
              /\ occurs(e.stdin, t) => e.argv = <<S_credential, S_approve>>
        /\ \A i \in 1..Len(usage_log) :
              /\ ~occurs(usage_log[i].profile, t)
              /\ ~occurs(usage_log[i].command, t)

\* a second token value, and the profile with its token replaced
S_other_token == <<"o", "t">>
with_token(p, t) == [p EXCEPT !.auth = Token(t)]

\* the argument vectors, environments and directories of a list of subprocesses
command_lines(events) ==
    [i \in 1..Len(events) |-> [argv |-> events[i].argv, env |-> events[i].env,
                               dir |-> events[i].dir]]

\* with a Token profile in use, every command line the remaining steps can
\* produce, and whether the credential step succeeds, is the same when the
\* token is another one; the log line is built without the profile's auth
TokenIndependent ==
    (cmd \in {"git", "use"} /\ profile.auth.kind = "Token") =>
        LET q == with_token(profile, S_other_token)
        IN  /\ q # profile
            /\ delegated_argv(q, args) = delegated_argv(profile, args)
            /\ delegated_env(q) = delegated_env(profile)
            /\ \A d \in AllDirs :
                  /\ apply_spawns(q, d) = apply_spawns(profile, d)
                  /\ apply_local_config_to_dir(git_config, q, d, clones)
                        = apply_local_config_to_dir(git_config, profile, d, clones)
            /\ \A o \in OriginAnswers, outcome \in CredentialOutcomes :
                  LET r1 == inject_token_credential(profile.name, profile.auth.val,
                                                    o, outcome, Here(cwd))
                      r2 == inject_token_credential(q.name, q.auth.val,
                                                    o, outcome, Here(cwd))
                  IN  /\ command_lines(r1.spawns) = command_lines(r2.spawns)
                      /\ r1.ok = r2.ok
            /\ LogLine(q.profile_name, join(args, <<" ">>), Here(cwd))
                  = LogLine(profile.profile_name, join(args, <<" ">>), Here(cwd))

\* C17: for a Token profile the token value is in no argument vector of any
\* subprocess and in no usage log entry, it is passed only on the standard
\* input of git credential approve, and the argument vectors and log entries
\* are the same for any other token value.
C17_TokenNeverInArgvOrLog == TokenOnlyOnStdin /\ TokenIndependent

\* a Token profile was used: its token went to git credential approve on
\* standard input, the log line was written and the tool was run
C17_Witness ==
    /\ cmd = "git"
    /\ pc = "done"
    /\ profile = ProfP
    /\ Len(usage_log) = 1
    /\ tool_status = Exited(0)
    /\ \E e \in Spawned : e.argv = <<S_credential, S_approve>> /\ occurs(e.stdin, ProfP.auth.val)
    /\ \E e \in Spawned : e.argv = delegated_argv(ProfP, args)

(***************************************************************************)
(* C18: the credential record is submitted exactly for an https origin.    *)
(***************************************************************************)
\* git remote get-url origin and git credential approve, run in directory d
GetUrl(d) == Spawn(<<S_remote, S_get_url, S_origin>>, None, None, d)
Approve(record, d) == Spawn(<<S_credential, S_approve>>, None, record, d)

\* the only origin answer of the model that is readable and https
HttpsOrigin(o) == o = Origin(S_url_https)

\* the record for profile p and the host h of https://h/o/r.git
S_record_head == <<"p", "r", "o", "t", "o", "c", "o", "l", "=", "h", "t", "t", "p", "s", "\n",
                   "h", "o", "s", "t", "=", "h", "\n",
                   "u", "s", "e", "r", "n", "a", "m", "e", "=">>
S_record_password == <<"\n", "p", "a", "s", "s", "w", "o", "r", "d", "=">>
ExpectedRecord(p) == S_record_head \o p.name \o S_record_password \o p.auth.val \o <<"\n">>

\* whatever the origin query answers and however the credential subprocess
\* goes: the query runs first; the record goes to git credential approve
\* exactly for the https origin (unless that subprocess cannot be started);
\* for any other answer nothing else is started and the step succeeds
CredentialByOrigin ==
    (cmd = "git" /\ pc = "credential") =>
        /\ profile.auth.kind = "Token"
        /\ \A o \in OriginAnswers, outcome \in CredentialOutcomes :
              LET r == inject_token_credential(profile.name, profile.auth.val,
                                               o, outcome, Here(cwd))
              IN  /\ HttpsOrigin(o) /\ outcome # "spawn_err"
                        => r.spawns = <<GetUrl(Here(cwd)),
                                        Approve(ExpectedRecord(profile), Here(cwd))>>
                  /\ HttpsOrigin(o) /\ outcome = "spawn_err" => r.spawns = <<GetUrl(Here(cwd))>> /\ ~r.ok
                  /\ HttpsOrigin(o) /\ outcome = "ok" => r.ok
                  /\ ~HttpsOrigin(o) => r.spawns = <<GetUrl(Here(cwd))>> /\ r.ok

\* the credential step does what inject_token_credential says for some
\* origin answer, and goes on to the delegation when it returns Ok
CredentialStep ==
    (cmd = "git" /\ pc = "credential") =>
        \E o \in OriginAnswers, outcome \in CredentialOutcomes :
            LET r == inject_token_credential(profile.name, profile.auth.val,
                                             o, outcome, Here(cwd))
            IN  /\ trace' = trace \o r.spawns
                /\ r.ok => pc' = "delegate" /\ exit_code' = exit_code
                /\ ~r.ok => pc' = "done"
                /\ UNCHANGED <<world, usage_log, profile, args, cwd>>

\* the positions in the trace of the origin query, of the credential
\* subprocess and of the delegated subprocess
GetUrlAt == {i \in 1..Len(trace) : trace[i] = GetUrl(Here(cwd))}
ApproveAt == {i \in 1..Len(trace) : trace[i].ev = "spawn" /\ trace[i].argv[1] = S_credential}
DelegatedAt ==
    {i \in 1..Len(trace) : trace[i].ev = "spawn" /\ trace[i].argv = delegated_argv(profile, args)}

\* in an intercepted invocation: only a Token profile queries the origin or
\* starts the credential subprocess, at most once each, the record is the
\* expected one, and both come before the delegated subprocess
CredentialBeforeDelegation ==
    cmd = "git" =>
        /\ \A i \in GetUrlAt \cup ApproveAt : profile.auth.kind = "Token"
        /\ Cardinality(GetUrlAt) <= 1 /\ Cardinality(ApproveAt) <= 1
        /\ \A i \in ApproveAt :
              /\ trace[i] = Approve(ExpectedRecord(profile), Here(cwd))
              /\ i - 1 \in GetUrlAt
        /\ \A j \in DelegatedAt :
              /\ profile.auth.kind = "Token" => j - 1 \in GetUrlAt \cup ApproveAt
              /\ \A i \in GetUrlAt \cup ApproveAt : i < j

\* C18: for a Token profile a credential record is submitted before the
\* delegation if and only if the origin URL can be read and is https; the
\* record is protocol=https, host=<text between the scheme and the first />,
\* username=<profile's display name>, password=<token>; with no origin, a
\* failing query or a URL that is not https no credential subprocess is
\* started and the delegation goes on.
C18_CredentialIffHttpsOrigin ==
    /\ [](CredentialByOrigin /\ CredentialBeforeDelegation)
    /\ [][CredentialStep]_vars

\* a Token profile in a repository with an https origin: the record was
\* submitted and the delegation is next
C18_Witness ==
    /\ cmd = "git"
    /\ pc = "delegate"
    /\ profile = ProfP
    /\ Len(trace) >= 2
    /\ trace[Len(trace) - 1] = GetUrl(Here(cwd))
    /\ trace[Len(trace)] = Approve(ExpectedRecord(ProfP), Here(cwd))

(***************************************************************************)
(* C19: a pass-through touches nothing of the identity logic.              *)
(***************************************************************************)
\* nothing of the identity logic has happened in this invocation: no profile
\* was resolved or selected, no prompt was shown, no log line and no local
\* config file was written, and the only subprocess, if any, is the tool
\* with the original arguments
NoIdentityLogic ==
    /\ profile = NoProfile
    /\ rule = 0
    /\ ~selected
    /\ ~bound
    /\ usage_log = <<>>
    /\ \A i \in 1..Len(trace) : trace[i] = Spawn(args, None, None, Here(cwd))

\* a pass-through that has ended has got as far as starting the tool
EndsAtTheTool == pc = "done" => tool_status # NoStatus

\* no step of a pass-through writes a config file or a repository setting
PassThroughWritesNothing ==
    (NotIntercepted \/ NotIntercepted') =>
        UNCHANGED <<global_file, local_file, git_config, last_bound>>

\* C19: when the first token is not in intercepted_commands the pass-through
\* is decided before any identity logic: detect_profile is not run, no
\* selection or bind prompt is shown, no usage log line is written, no
\* credential is submitted and no config file or repository setting is
\* written, also with no profiles or with dangling references; the
\* invocation ends only at the tool.
C19_PassThroughFrame ==
    /\ [](NotIntercepted => NoIdentityLogic /\ EndsAtTheTool)
    /\ [][PassThroughWritesNothing]_vars

\* a pass-through ran the tool to its end with no profiles configured, a
\* dangling default and a dangling local binding
C19_Witness ==
    /\ NotIntercepted
    /\ pc = "done"
    /\ config.profiles = <<>>
    /\ config.default_profile = S_z
    /\ local_file[Here(cwd)] = LocalDoc(S_z)
    /\ trace = <<Spawn(args, None, None, Here(cwd))>>
    /\ exit_code = 0

(***************************************************************************)
(* C20: the order of the steps of an intercepted invocation.               *)
(***************************************************************************)
\* the step an event of the trace belongs to: 1 resolve or select, 2 bind,
\* 3 usage log, 4 credential, 5 delegation, 6 post-clone bind (whatever comes
\* after the delegated subprocess), 0 for an event no step accounts for
Step(i) ==
    LET e == trace[i]
    IN  IF \E j \in DelegatedAt : j < i THEN 6
        ELSE IF i \in DelegatedAt THEN 5
        ELSE IF e.ev = "select" THEN 1
        ELSE IF e.ev = "confirm" THEN 2
        ELSE IF e.ev = "write_local" THEN 2
        ELSE IF e.ev = "log" THEN 3
        ELSE IF e.ev # "spawn" THEN 0
        ELSE IF e.argv[1] = S_rev_parse THEN 1
        ELSE IF e.argv[1] = S_config /\ Len(e.argv) = 3 THEN 1
        ELSE IF e.argv[1] = S_config THEN 2
        ELSE IF e.argv[1] \in {S_remote, S_credential} THEN 4
        ELSE 0

\* the events of a bind: the write of a local config file and git config --local
BindEvent(e) == e.ev = "write_local" \/ (e.ev = "spawn" /\ e.argv[1] = S_config /\ Len(e.argv) = 4)

\* the entry log_usage appends for this invocation
ThisEntry == LogLine(profile.profile_name, join(args, <<" ">>), Here(cwd))

\* the events come in the order of the steps; a bind before the delegation
\* follows a selection, and only binds follow the delegation
StepsInOrder ==
    /\ \A i \in 1..Len(trace) : Step(i) # 0
    /\ \A i \in 1..Len(trace), j \in 1..Len(trace) : i < j => Step(i) <= Step(j)
    /\ \A i \in 1..Len(trace) : Step(i) = 2 => selected
    /\ \A i \in 1..Len(trace) : Step(i) = 6 => BindEvent(trace[i]) /\ is_clone(args)
    /\ Cardinality(DelegatedAt) <= 1

\* the log holds this invocation's entry, once, from the log step on, and
\* nothing before it; the tool is not started without it
LoggedOnce ==
    /\ Cardinality({i \in 1..Len(trace) : trace[i].ev = "log"}) = Len(usage_log)
    /\ usage_log \in {<<>>, <<ThisEntry>>}
    /\ pc \in {"detect", "select", "confirm", "log"} => usage_log = <<>>
    /\ pc \in {"credential", "delegate", "postclone"} =>
          usage_log = <<ThisEntry>> /\ profile # NoProfile
    /\ (DelegatedAt # {} \/ tool_status # NoStatus) => usage_log = <<ThisEntry>>

\* the step that starts the delegated subprocess finds the entry in the log
\* and leaves the log as it is
DelegationFindsEntry ==
    (cmd = "git" /\ pc = "delegate") => usage_log = <<ThisEntry>> /\ UNCHANGED usage_log

\* C20: in every intercepted invocation the steps come in the order resolve
\* or select the profile, optional bind, usage log append, credential
\* injection, delegation, post-clone bind; the delegated subprocess is not
\* started unless the entry of this invocation (profile name, all
\* arguments, working directory) has been appended before, and a delegated
\* invocation appends exactly one entry.
C20_StepOrder ==
    /\ []((cmd = "git" /\ config.ok /\ ~NotIntercepted) => StepsInOrder /\ LoggedOnce)
    /\ [][DelegationFindsEntry]_vars

\* a clone with a selected Token profile went through every step: selection,
\* log, credential, delegation and the post-clone bind
C20_Witness ==
    /\ cmd = "git"
    /\ pc = "done"
    /\ selected
    /\ profile = ProfP
    /\ usage_log = <<ThisEntry>>
    /\ \E i \in 1..Len(trace) : Step(i) = 4
    /\ \E i \in 1..Len(trace) : Step(i) = 5
    /\ \E i \in 1..Len(trace) : Step(i) = 6

(***************************************************************************)
(* C21: a resolved, non-clone invocation persists nothing.                 *)
(***************************************************************************)
\* an intercepted invocation that is not a clone and whose profile came from
\* detect_profile
ResolvedNonClone ==
    /\ cmd = "git"
    /\ config.ok
    /\ rule # 0
    /\ ~selected
    /\ ~is_clone(args)

\* no step of such an invocation, its start included, writes the global
\* config file, a local config file or a repository setting
ResolvedPersistsNothing ==
    (ResolvedNonClone \/ ResolvedNonClone' \/ (pc = "idle" /\ cmd' = "git")) =>
        UNCHANGED <<global_file, local_file, git_config, last_bound>>

\* in such an invocation nothing binds and nothing prompts; the delegated
\* subprocess carries the identity as -c overrides; GIT_SSH_COMMAND is set
\* for it alone, to the key-pinned command, exactly when the auth is SSH
OverridesOnly ==
    ResolvedNonClone =>
        /\ ~bound
        /\ \A i \in 1..Len(trace) :
              /\ trace[i].ev \in {"spawn", "log"}
              /\ ~BindEvent(trace[i])
              /\ i \notin DelegatedAt => trace[i].env = None
        /\ \A j \in DelegatedAt :
              /\ trace[j].argv = <<S_dash_c, S_user_name_eq \o profile.name,
                                   S_dash_c, S_user_email_eq \o profile.email>> \o args
              /\ trace[j].env # None <=> profile.auth.kind = "SSH"
              /\ profile.auth.kind = "SSH" =>
                    trace[j].env = S_ssh_i \o profile.auth.val \o S_identities_only

\* C21: an intercepted non-clone invocation whose profile detect_profile
\* produced leaves the global config file, the local config files and the
\* repository's user.name, user.email and core.sshCommand as they are: the
\* identity is passed as -c overrides of the delegated subprocess only, and
\* the key-pinned ssh command only in its GIT_SSH_COMMAND, which is set if
\* and only if the profile's auth is SSH.
C21_ResolvedInvocationPersistsNothing ==
    /\ []OverridesOnly
    /\ [][ResolvedPersistsNothing]_vars

\* a push with the resolved SSH profile ran the tool with GIT_SSH_COMMAND set
C21_Witness ==
    /\ ResolvedNonClone
    /\ pc = "done"
    /\ profile = ProfW
    /\ tool_status = Exited(0)
    /\ \E j \in DelegatedAt : trace[j].env = ssh_command(ProfW.auth.val)

(***************************************************************************)
(* C22: what detect_cloned_dir returns.                                    *)
(***************************************************************************)
\* the argument looks like a repository URL
UrlShaped(arg) ==
    \/ Len(arg) >= 4 /\ SubSeq(arg, 1, 4) = <<"h", "t", "t", "p">>
    \/ Len(arg) >= 4 /\ SubSeq(arg, 1, 4) = <<"g", "i", "t", "@">>
    \/ Len(arg) >= 4 /\ SubSeq(arg, Len(arg) - 3, Len(arg)) = <<".", "g", "i", "t">>

\* the final path segment of a URL without its .git suffix
DerivedName(url) ==
    LET slashes == {i \in 1..Len(url) : url[i] = "/"}
        from == IF slashes = {} THEN 1 ELSE (CHOOSE i \in slashes : \A j \in slashes : j <= i) + 1
        seg == SubSeq(url, from, Len(url))
    IN  IF Len(seg) >= 4 /\ SubSeq(seg, Len(seg) - 3, Len(seg)) = <<".", "g", "i", "t">>
        THEN SubSeq(seg, 1, Len(seg) - 4)
        ELSE seg

\* the directory the two rules give for an argument vector: the last
\* argument, or the one derived from the last URL-shaped argument, when it
\* exists; NoRepo otherwise
ExpectedClonedDir ==
    LET last == args[Len(args)]
        exists(name) == Child(cwd, name) \in dirs
        urls == {i \in 1..Len(args) : UrlShaped(args[i])}
        last_url == args[CHOOSE i \in urls : \A j \in urls : j <= i]
    IN  IF last[1] # "-" /\ ~UrlShaped(last) /\ exists(last) THEN Child(cwd, last)
        ELSE IF urls # {} /\ exists(DerivedName(last_url)) THEN Child(cwd, DerivedName(last_url))
        ELSE NoRepo

\* C22: detect_cloned_dir returns the last argument when it is no flag, not
\* URL-shaped and an existing directory; otherwise the directory derived from
\* the last URL-shaped argument only (final path segment without .git) when
\* it exists; and nothing in every other case: never a directory derived
\* from an earlier URL-shaped argument, never a path that does not exist.
C22_DetectClonedDirExactly ==
    (cmd = "detect_cloned_dir" /\ pc = "done") => trace = <<ClonedDir(ExpectedClonedDir)>>

(***************************************************************************)
(* C23: two overlapping editors, last writer wins.                         *)
(***************************************************************************)
\* both editors loaded the file before either saved, made different
\* changes, and both have saved
BothSavedOverlapping ==
    /\ \A e \in {1, 2} : editors[e].pc = "saved"
    /\ \A e \in {1, 2} : editors[e].config = race_edit(load_config(RaceDoc), editors[e].op)
    /\ editors[1].op # editors[2].op

\* the editor whose save_config returned last
LaterEditor == CHOOSE e \in {1, 2} : editors[e].order = 2

\* the file holds the changed part of an editor's Config
HoldsChangeOf(e) ==
    IF editors[e].op = "profile_edit"
    THEN global_file.profiles = editors[e].config.profiles
    ELSE global_file.intercepted_commands = editors[e].config.intercepted_commands

\* C23: two config-editing invocations that overlap (each loads before the
\* other saves) end with the global config file equal to what the later
\* save wrote, so that the earlier writer's change is lost; no interleaving
\* leaves a file that holds both changes.
C23_LastWriterWins ==
    BothSavedOverlapping =>
        /\ global_file = save_config(editors[LaterEditor].config)
        /\ ~(HoldsChangeOf(1) /\ HoldsChangeOf(2))

(***************************************************************************)
(* C24: a loaded intercepted_commands is never empty.                      *)
(***************************************************************************)
\* what load_config gives for the file as it is now
Loaded == load_config(global_file)

\* a successful load has a non-empty intercepted_commands; it is pull, push,
\* fetch, clone for a missing file, a missing field and a persisted empty list
LoadedNeverEmpty ==
    Loaded.ok =>
        /\ Loaded.intercepted_commands # <<>>
        /\ (\/ global_file.kind = "missing"
            \/ ~global_file.has_ic
            \/ global_file.intercepted_commands = <<>>)
              => Loaded.intercepted_commands = <<S_pull, S_push, S_fetch, S_clone>>

\* the Config a handler holds right after loading is the loaded one
HeldAfterLoad ==
    (pc \in {"pass", "detect"} /\ cmd = "git") =>
        config.ok /\ config = Loaded /\ config.intercepted_commands # <<>>

\* the file holds the empty selection
EmptySelectionSaved ==
    global_file.kind = "doc" /\ global_file.has_ic /\ global_file.intercepted_commands = <<>>

\* with the empty selection on disk an invocation of pull, push, fetch or
\* clone is intercepted
StillIntercepts ==
    (EmptySelectionSaved /\ pc = "idle" /\ cmd' = "git"
        /\ args'[1] \in {S_pull, S_push, S_fetch, S_clone}) => pc' = "detect"

\* C24: after every load_config that succeeds intercepted_commands is not
\* empty: a missing file, a missing field and a persisted empty list all
\* give pull, push, fetch, clone; so after gix commands has saved an empty
\* selection the next invocation still intercepts pull, push, fetch and clone.
C24_InterceptedNeverEmpty ==
    /\ [](LoadedNeverEmpty /\ HeldAfterLoad)
    /\ [][StillIntercepts]_vars

\* gix commands saved the empty selection and the next push is intercepted
C24_Witness ==
    /\ EmptySelectionSaved
    /\ cmd = "git"
    /\ args = <<S_push>>
    /\ pc = "detect"
    /\ config.intercepted_commands = <<S_pull, S_push, S_fetch, S_clone>>

(***************************************************************************)
(* C25: an interrupted selection takes the first profile.                  *)
(***************************************************************************)
\* the selection prompt of this invocation failed or was interrupted
SelectionInterrupted ==
    \E i \in 1..Len(trace) : trace[i].ev = "select" /\ trace[i].reply = "err"

\* with profiles to choose from, select_profile returns one of them for
\* every answer, and the first of the list when the prompt is interrupted
SelectAlwaysReturns ==
    (cmd = "git" /\ pc = "select" /\ config.profiles # <<>>) =>
        /\ \A answer \in Answers :
              (answer = Interrupted \/ answer < Len(config.profiles)) =>
                  \E i \in 1..Len(config.profiles) :
                      select_profile(config, answer) = config.profiles[i]
        /\ select_profile(config, Interrupted) = config.profiles[1]

\* the selection step never ends the command then: it goes on to the bind
\* prompt, or straight to the log for a clone or outside a working tree
SelectionGoesOn ==
    (cmd = "git" /\ pc = "select" /\ config.profiles # <<>>) =>
        /\ selected'
        /\ \E i \in 1..Len(config.profiles) : profile' = config.profiles[i]
        /\ exit_code' = NotExited
        /\ pc' = IF is_inside_git_repo(Here(cwd), clones) /\ args[1] # S_clone
                 THEN "confirm" ELSE "log"

\* after an interrupted selection the invocation runs with the first
\* profile: it is the one logged, and the delegated subprocess has its
\* identity and GIT_SSH_COMMAND
InterruptedUsesFirst ==
    (cmd = "git" /\ SelectionInterrupted) =>
        /\ selected
        /\ profile = config.profiles[1]
        /\ \A i \in 1..Len(usage_log) : usage_log[i].profile = config.profiles[1].profile_name
        /\ \A i \in 1..Len(trace) :
              (trace[i].ev = "spawn" /\ trace[i].argv[1] = S_dash_c) =>
                  /\ trace[i].argv = <<S_dash_c, S_user_name_eq \o config.profiles[1].name,
                                       S_dash_c, S_user_email_eq \o config.profiles[1].email>>
                                     \o args
                  /\ trace[i].env = delegated_env(config.profiles[1])

\* C25: whenever at least one profile exists select_profile returns a
\* profile: when the selection prompt fails or is interrupted it returns the
\* first profile of the list instead of reporting a cancellation, so that an
\* intercepted command whose selection was interrupted and that needs no
\* bind confirmation (a clone, or outside a working tree) goes on to log and
\* to delegate with the first profile's identity and credentials.
C25_InterruptedSelectionUsesFirst ==
    /\ [](SelectAlwaysReturns /\ InterruptedUsesFirst)
    /\ [][SelectionGoesOn]_vars

\* a clone whose selection prompt was interrupted ran the tool as the first
\* profile and logged it
C25_Witness ==
    /\ cmd = "git"
    /\ SelectionInterrupted
    /\ args[1] = S_clone
    /\ pc = "done"
    /\ tool_status = Exited(0)
    /\ usage_log = <<LogLine(ProfW.profile_name, join(args, <<" ">>), Here(cwd))>>
    /\ \E i \in 1..Len(trace) : trace[i].argv = delegated_argv(ProfW, args)
    /\ \A i \in 1..Len(trace) : trace[i].ev # "confirm"

(***************************************************************************)
(* C26: deleting or renaming a profile leaves the references to it.        *)
(***************************************************************************)
\* gix profile delete or gix profile edit has changed its Config and is
\* about to save it
DeletesOrEdits ==
    /\ pc = "idle"
    /\ pc' = "save_create"
    /\ cmd' \in {"profile_delete", "profile_edit"}

\* the names the step deleted (all profiles of that name are gone) or
\* renamed (the profile at the same position has another name now)
DeletedOrRenamed ==
    LET old == load_config(global_file).profiles
        new == config'.profiles
    IN  IF cmd' = "profile_delete"
        THEN {old[i].profile_name : i \in 1..Len(old)}
                \ {new[i].profile_name : i \in 1..Len(new)}
        ELSE {old[i].profile_name : i \in {j \in 1..Len(old) :
                                              new[j].profile_name # old[j].profile_name}}

\* only the profile list differs from the loaded Config, and what is saved
\* is that Config; no local config file and no repository setting changes
OnlyProfilesChange ==
    /\ DeletesOrEdits =>
          /\ config'.default_profile = load_config(global_file).default_profile
          /\ config'.intercepted_commands = load_config(global_file).intercepted_commands
    /\ cmd' \in {"profile_delete", "profile_edit"} =>
          /\ UNCHANGED <<local_file, git_config>>
          /\ global_file' # global_file =>
                global_file' \in {GlobalPartial, save_config(config)}

\* a reference to a deleted or renamed name does not resolve any more:
\* detect_profile with a local binding or a default of that name gives what
\* it gives without that reference, and never an error
ReferencesDangle ==
    DeletesOrEdits =>
        \A a \in DeletedOrRenamed :
            /\ find_by_name(config'.profiles, a) = NoProfile
            /\ \A email \in {None, ProfP.email} :
                  LET out == IF email = None THEN [success |-> FALSE, stdout |-> <<>>]
                             ELSE [success |-> TRUE, stdout |-> email \o <<"\n">>]
                      bound_to_a == detect_profile(config', [some |-> TRUE, selected_profile |-> a],
                                                   TRUE, out)
                      unbound == detect_profile(config', [some |-> FALSE, selected_profile |-> None],
                                                TRUE, out)
                      default_a == detect_profile([config' EXCEPT !.default_profile = a],
                                                  [some |-> FALSE, selected_profile |-> None],
                                                  TRUE, out)
                      no_default == detect_profile([config' EXCEPT !.default_profile = None],
                                                   [some |-> FALSE, selected_profile |-> None],
                                                   TRUE, out)
                  IN  /\ bound_to_a.profile = unbound.profile
                      /\ bound_to_a.rule # 1
                      /\ default_a.profile = no_default.profile
                      /\ default_a.rule # 2

\* C26: deleting or renaming a profile changes only the profile list of the
\* global config: default_profile and every local config file keep the old
\* name, so that afterwards a repository bound to that name, or a default of
\* that name, no longer resolves by its rule and detect_profile falls
\* through to the next rule, without an error.
C26_ReferencesKeepOldName == [][OnlyProfilesChange /\ ReferencesDangle]_vars
====
